---- MODULE Spec2Model ----
(***************************************************************************)
(* Verification model of project4controller.                               *)
(*                                                                         *)
(* app/model/video_predict.py: the fatigue scoring engine                  *)
(* (FatigueTrendAnalyzer, VideoFatiguePredictor._calculate_fatigue_metrics *)
(* and VideoFatiguePredictor.predict_fatigue) together with the module     *)
(* level MediaPipe FaceMesh instance FACE_MESH that every pass uses.       *)
(* Specification Spec; SpecLive is Spec with the fairness of a running     *)
(* synchronous call; SpecTrend has a FatigueTrendAnalyzer on its own.      *)
(*                                                                         *)
(* app/config/database_config.py: get_redis_pool (specification SpecRedis) *)
(* and get_db (specification SpecDb).                                      *)
(*                                                                         *)
(* app/repository/cache_aside_storage.py: insert_heart_data and            *)
(* get_latest_heart_data of CacheAsideRepository (specification SpecRepo). *)
(*                                                                         *)
(* Each specification moves the variables of its own part and leaves the   *)
(* others at their initial values.                                         *)
(*                                                                         *)
(* Numbers.  EAR and MAR values are integers in units of 1e-6, so that the *)
(* 1e-6 epsilon of the code is the integer 1.  Energies are the integers   *)
(* 0..100 (the code only ever adds or subtracts multiples of 5).  Means,   *)
(* ratios and scores are exact rationals <<num, den>> in lowest terms; the *)
(* code computes them in IEEE doubles, which agree with the rationals on   *)
(* every comparison the inputs of this model reach.                        *)
(***************************************************************************)
EXTENDS Integers, Sequences, FiniteSets, TLC

VARIABLES
    frames_data,          \* predict_fatigue: the argument, a list of frames
    pc,                   \* position of the invocation
    calls,                \* number of predict_fatigue invocations started
    FACE_MESH,            \* the module-level FaceMesh instance (its tracking state)
    frames_subset,        \* _calculate_fatigue_metrics: the argument of the running pass
    pos,                  \* number of frames of frames_subset the for-loop has consumed
    trend_analyzer,       \* the pass's FatigueTrendAnalyzer
    max_warning_level,
    current_warning,
    curr_closed_seq,
    max_closed_seq,
    total_closed_frames,
    valid_frame_count,
    current_energy,
    min_energy_recorded,
    overall_score,        \* predict_fatigue locals
    overall_level,
    group_scores,
    i,                    \* start index (0-based) of the running group
    result,               \* the value predict_fatigue returned, or None
    observed,             \* history: per valid frame of the running pass, what the loop body measured and left
    visited,              \* history: the indices in frames_data of the frames the loops of the invocation took
    _redis,               \* database_config._redis: None or the client
    REDIS_URL,            \* settings.REDIS_URL: whether redis.from_url accepts it
    clients_created,      \* number of clients redis.from_url has built
    pool_calls,           \* the get_redis_pool() coroutines: position and result
    db_use,               \* the running use of get_db: the generator, its session, its consumer
    db_log,               \* the uses of get_db that are over, in order
    db_rows,              \* table heart_rate_data: the committed rows of the user, by id
    redis_kv,             \* Redis: what is stored under heart_rate:{user_id}:latest
    repo_calls,           \* the calls of CacheAsideRepository methods: position, locals, result
    ta_args,              \* a FatigueTrendAnalyzer on its own: the arguments it was created with
    analyzer,             \* that analyzer
    ta_samples,           \* the (ear, mar) samples it is to be given
    ta_fed,               \* how many of them update has taken
    ta_level              \* what the last update returned

videovars == <<frames_data, pc, calls, FACE_MESH, frames_subset, pos, trend_analyzer,
               max_warning_level, current_warning, curr_closed_seq, max_closed_seq,
               total_closed_frames, valid_frame_count, current_energy,
               min_energy_recorded, overall_score, overall_level, group_scores, i,
               result, observed, visited>>

redisvars == <<_redis, REDIS_URL, clients_created, pool_calls>>

dbvars == <<db_use, db_log>>

repovars == <<db_rows, redis_kv, repo_calls>>

trendvars == <<ta_args, analyzer, ta_samples, ta_fed, ta_level>>

\* The variables outside the fatigue engine.
extvars == <<redisvars, dbvars, repovars, trendvars>>

vars == <<videovars, extvars>>

\* Python's None (an unset baseline, a result not yet returned).
None == <<>>

-----------------------------------------------------------------------------
(* Bounds of the model.                                                    *)

\* Every frame list of at most MaxShort frames is an input.
MaxShort == 2
\* Patterned frame lists are as long as MaxGroups full groups plus one frame.
MaxGroups == 2
\* predict_fatigue is invoked at most MaxCalls times in a row.
MaxCalls == 2
\* Number of get_redis_pool() coroutines on the event loop.
MaxPoolCalls == 4
\* Number of uses of get_db, one after the other.
MaxDbUses == 3
\* Number of samples given to a FatigueTrendAnalyzer on its own.
MaxUpdates == 32
\* Number of repository calls (insert_heart_data, get_latest_heart_data),
\* interleaved at their awaits.
MaxRepoCalls == 2

-----------------------------------------------------------------------------
(* Exact rational arithmetic.                                              *)

RECURSIVE GCD(_, _)
GCD(a, b) == IF b = 0 THEN a ELSE GCD(b, a % b)

Abs(x) == IF x < 0 THEN -x ELSE x

\* The rational n/d (d > 0) in lowest terms.
Rat(n, d) ==
    LET g == GCD(Abs(n), d) IN
    IF n = 0 THEN <<0, 1>> ELSE <<n \div g, d \div g>>

RatAdd(a, b) == Rat(a[1] * b[2] + b[1] * a[2], a[2] * b[2])
RatSub(a, b) == Rat(a[1] * b[2] - b[1] * a[2], a[2] * b[2])
RatMul(a, b) == Rat(a[1] * b[1], a[2] * b[2])
RatDiv(a, b) == Rat(a[1] * b[2], a[2] * b[1])
RatLT(a, b) == a[1] * b[2] < b[1] * a[2]
RatLE(a, b) == a[1] * b[2] <= b[1] * a[2]
RatMin(a, b) == IF RatLT(b, a) THEN b ELSE a
RatMax(a, b) == IF RatLT(a, b) THEN b ELSE a

Min(a, b) == IF b < a THEN b ELSE a
Max(a, b) == IF a < b THEN b ELSE a

RECURSIVE SumSeq(_)
SumSeq(s) == IF s = <<>> THEN 0 ELSE Head(s) + SumSeq(Tail(s))

\* np.mean of a non-empty sequence of integers.
Mean(s) == Rat(SumSeq(s), Len(s))

-----------------------------------------------------------------------------
(* Frames.  A frame of the input list is an opaque byte string; the model  *)
(* names it by what decoding and the face detector make of it.             *)

EYE_AR_THRESH == 180000
MAR_THRESH == 600000

FrameKinds ==
    { "raise",    \* np.frombuffer / cv2.imdecode raises on it
      "nodecode", \* cv2.imdecode returns None
      "noface",   \* decodes; shows no face
      "faint",    \* decodes; an open-eyed face the detector misses on its own
      "wide",     \* ear 0.40, mar 0.10
      "open",     \* ear 0.30, mar 0.10
      "droopy",   \* ear 0.20, mar 0.10
      "edge",     \* ear 0.18, mar 0.60: exactly on both thresholds
      "closed",   \* ear 0.10, mar 0.10
      "shut",     \* ear 0.05, mar 0.10
      "yawn",     \* ear 0.30, mar 0.70
      "shutyawn"  \* ear 0.05, mar 0.70
    }

\* Lines 165-172: the outcome of decoding frame_bytes.
Decode(frame_bytes) ==
    CASE frame_bytes = "raise" -> "raise"
      [] frame_bytes = "nodecode" -> "none"
      [] OTHER -> "image"

Decodable(frame_bytes) == Decode(frame_bytes) = "image"

\* eye_aspect_ratio averaged over both eyes, on the landmarks of the frame.
LandmarkEAR(frame) ==
    CASE frame = "wide" -> 400000
      [] frame \in {"open", "yawn", "faint"} -> 300000
      [] frame = "droopy" -> 200000
      [] frame = "edge" -> EYE_AR_THRESH
      [] frame = "closed" -> 100000
      [] frame \in {"shut", "shutyawn"} -> 50000

\* mouth_aspect_ratio on the landmarks of the frame.
LandmarkMAR(frame) ==
    CASE frame \in {"yawn", "shutyawn"} -> 700000
      [] frame = "edge" -> MAR_THRESH
      [] OTHER -> 100000

(* FACE_MESH is one FaceMesh object, built once at import with             *)
(* static_image_mode left at its default (False) and a tracking            *)
(* confidence: it treats the images it is given as one video stream.  Its  *)
(* state is whether the previous image it processed had its face           *)
(* localized; when it had, the next image is searched around that face     *)
(* without running the detector, and a face the detector alone would miss  *)
(* is found.                                                               *)
FaceMeshInit == FALSE

\* FACE_MESH.process(rgb_frame): [found, mesh] - whether multi_face_landmarks
\* is non-empty, and the state of the object afterwards.
FaceMeshProcess(mesh, frame) ==
    LET found == CASE frame = "noface" -> FALSE
                   [] frame = "faint" -> mesh
                   [] OTHER -> TRUE
    IN  [found |-> found, mesh |-> found]

\* VideoFatiguePredictor._calculate_ear_mar_on_frame
calculate_ear_mar_on_frame(mesh, frame) ==
    LET results == FaceMeshProcess(mesh, frame) IN
    IF results.found
    THEN [ear |-> LandmarkEAR(frame), mar |-> LandmarkMAR(frame), mesh |-> results.mesh]
    ELSE [ear |-> 0, mar |-> 0, mesh |-> results.mesh]

-----------------------------------------------------------------------------
(* FatigueTrendAnalyzer                                                    *)

CALIBRATION_FRAMES == 10
TREND_WINDOW == 20

\* Mutant of DequeAppend: a full deque drops its newest element, not its
\* oldest.
DequeAppend_DropNewest(d, x, maxlen) ==
    IF Len(d) >= maxlen THEN Append(SubSeq(d, 1, Len(d) - 1), x) ELSE Append(d, x)

\* collections.deque(maxlen = n).append(x)
DequeAppend(d, x, maxlen) ==
    IF Len(d) >= maxlen THEN Append(Tail(d), x) ELSE Append(d, x)

\* FatigueTrendAnalyzer.__init__
FatigueTrendAnalyzer(window_size) ==
    [ear_history |-> <<>>, yawn_history |-> <<>>, baseline_ear |-> None,
     window_size |-> window_size]

\* Mutant of WarningLevel: frequent yawning alone gives level 2.
WarningLevel_YawnIsTwo(is_eyes_dropping, is_freq_yawning, is_eyes_dropping_heavy) ==
    LET l1 == IF is_eyes_dropping THEN 1 ELSE 0
        l2 == IF is_freq_yawning THEN 2 ELSE l1
    IN  IF is_eyes_dropping_heavy THEN 2 ELSE l2

\* Mutant of WarningLevel: the heavy-drop rule (lines 93-94) is missing.
WarningLevel_NoHeavy(is_eyes_dropping, is_freq_yawning, is_eyes_dropping_heavy) ==
    LET l1 == IF is_eyes_dropping THEN 1 ELSE 0
    IN  IF is_freq_yawning THEN (IF l1 = 1 THEN 2 ELSE 1) ELSE l1

\* Lines 83-96: the level from the three flags.
WarningLevel(is_eyes_dropping, is_freq_yawning, is_eyes_dropping_heavy) ==
    LET l1 == IF is_eyes_dropping THEN 1 ELSE 0
        l2 == IF is_freq_yawning THEN (IF l1 = 1 THEN 2 ELSE 1) ELSE l1
    IN  IF is_eyes_dropping_heavy THEN 2 ELSE l2

\* Lines 85-94: the values warning_level takes, statement by statement.
WarningLevelTrace(is_eyes_dropping, is_freq_yawning, is_eyes_dropping_heavy) ==
    LET l0 == 0
        l1 == IF is_eyes_dropping THEN 1 ELSE l0
        l2 == IF is_freq_yawning THEN (IF l1 = 1 THEN 2 ELSE 1) ELSE l1
        l3 == IF is_eyes_dropping_heavy THEN 2 ELSE l2
    IN  <<l0, l1, l2, l3>>

\* Mutant of TrendUpdate: the call that sets the baseline goes on to the
\* level derivation instead of returning 0.
TrendUpdate_CalibratingCallScored(ta, current_ear, current_mar) ==
    LET ear_history == DequeAppend(ta.ear_history, current_ear, ta.window_size)
        is_yawning == IF current_mar > MAR_THRESH THEN 1 ELSE 0
        yawn_history == DequeAppend(ta.yawn_history, is_yawning, ta.window_size)
        pushed == [ta EXCEPT !.ear_history = ear_history,
                             !.yawn_history = yawn_history]
        baseline == IF ta.baseline_ear = None /\ Len(ear_history) >= CALIBRATION_FRAMES
                    THEN Mean(ear_history) ELSE ta.baseline_ear
    IN  IF baseline = None
        THEN [ta |-> pushed, level |-> 0]
        ELSE LET decay_ratio == RatDiv(Mean(ear_history), RatAdd(baseline, Rat(1, 1)))
             IN  [ta |-> [pushed EXCEPT !.baseline_ear = baseline],
                  level |-> WarningLevel(RatLT(decay_ratio, Rat(85, 100)),
                                         SumSeq(yawn_history) >= 2,
                                         RatLT(decay_ratio, Rat(5, 10)))]

\* Mutant of TrendUpdate: the baseline follows the window (it is set again
\* on every update, the `is None` test of line 73 missing).
TrendUpdate_Recalibrates(ta, current_ear, current_mar) ==
    LET ear_history == DequeAppend(ta.ear_history, current_ear, ta.window_size)
        is_yawning == IF current_mar > MAR_THRESH THEN 1 ELSE 0
        yawn_history == DequeAppend(ta.yawn_history, is_yawning, ta.window_size)
        pushed == [ta EXCEPT !.ear_history = ear_history,
                             !.yawn_history = yawn_history]
    IN  IF Len(ear_history) >= CALIBRATION_FRAMES
        THEN [ta |-> [pushed EXCEPT !.baseline_ear = Mean(ear_history)], level |-> 0]
        ELSE [ta |-> pushed, level |-> 0]

\* Mutant of TrendUpdate: the baseline is set on the 5th sample.
TrendUpdate_CalibratesAtFive(ta, current_ear, current_mar) ==
    LET ear_history == DequeAppend(ta.ear_history, current_ear, ta.window_size)
        is_yawning == IF current_mar > MAR_THRESH THEN 1 ELSE 0
        yawn_history == DequeAppend(ta.yawn_history, is_yawning, ta.window_size)
        pushed == [ta EXCEPT !.ear_history = ear_history,
                             !.yawn_history = yawn_history]
    IN  IF ta.baseline_ear = None
        THEN [ta |-> IF Len(ear_history) >= 5
                     THEN [pushed EXCEPT !.baseline_ear = Mean(ear_history)]
                     ELSE pushed,
              level |-> 0]
        ELSE LET current_avg_ear == Mean(ear_history)
                 decay_ratio == RatDiv(current_avg_ear,
                                       RatAdd(ta.baseline_ear, Rat(1, 1)))
             IN  [ta |-> pushed,
                  level |-> WarningLevel(RatLT(decay_ratio, Rat(85, 100)),
                                         SumSeq(yawn_history) >= 2,
                                         RatLT(decay_ratio, Rat(5, 10)))]

\* FatigueTrendAnalyzer.update: [ta, level] - the analyzer afterwards and the
\* level returned.
TrendUpdate(ta, current_ear, current_mar) ==
    LET ear_history == DequeAppend(ta.ear_history, current_ear, ta.window_size)
        is_yawning == IF current_mar > MAR_THRESH THEN 1 ELSE 0
        yawn_history == DequeAppend(ta.yawn_history, is_yawning, ta.window_size)
        pushed == [ta EXCEPT !.ear_history = ear_history,
                             !.yawn_history = yawn_history]
    IN  IF ta.baseline_ear = None
        THEN [ta |-> IF Len(ear_history) >= CALIBRATION_FRAMES
                     THEN [pushed EXCEPT !.baseline_ear = Mean(ear_history)]
                     ELSE pushed,
              level |-> 0]
        ELSE LET current_avg_ear == Mean(ear_history)
                 decay_ratio == RatDiv(current_avg_ear,
                                       RatAdd(ta.baseline_ear, Rat(1, 1)))
             IN  [ta |-> pushed,
                  level |-> WarningLevel(RatLT(decay_ratio, Rat(85, 100)),
                                         SumSeq(yawn_history) >= 2,
                                         RatLT(decay_ratio, Rat(5, 10)))]

-----------------------------------------------------------------------------
(* VideoFatiguePredictor._calculate_fatigue_metrics                        *)

MAX_ENERGY == 100
INITIAL_ENERGY == 90
INITIAL_MIN_ENERGY == 100
PENALTY_EYE_CLOSED == 20
PENALTY_YAWN == 10
PENALTY_CONSECUTIVE == 10
RECOVERY_NORMAL == 5

\* Lines 145-156: the state a pass starts from.  current_warning is not
\* bound before the first valid frame; the record gives it 0.  mesh is the
\* state FACE_MESH is in when the pass starts.
PassInit(mesh) ==
    [trend_analyzer |-> FatigueTrendAnalyzer(TREND_WINDOW),
     max_warning_level |-> 0,
     current_warning |-> 0,
     curr_closed_seq |-> 0,
     max_closed_seq |-> 0,
     total_closed_frames |-> 0,
     valid_frame_count |-> 0,
     current_energy |-> INITIAL_ENERGY,
     min_energy_recorded |-> INITIAL_MIN_ENERGY,
     FACE_MESH |-> mesh]

\* Mutant of EnergyUpdate: a closed-eye frame that also yawns takes the yawn
\* penalty too (`if is_yawning` in place of `elif is_yawning`).
EnergyUpdate_BothPenalties(current, is_eye_closed, is_yawning, closed_seq) ==
    LET after_eye == IF is_eye_closed
                     THEN current - PENALTY_EYE_CLOSED
                                  - (IF closed_seq >= 2 THEN PENALTY_CONSECUTIVE ELSE 0)
                     ELSE current
    IN  IF is_yawning THEN after_eye - PENALTY_YAWN
        ELSE IF is_eye_closed THEN after_eye ELSE after_eye + RECOVERY_NORMAL

\* Mutant of EnergyUpdate: a closed run takes no extra penalty.
EnergyUpdate_NoExtra(current, is_eye_closed, is_yawning, closed_seq) ==
    IF is_eye_closed THEN current - PENALTY_EYE_CLOSED
    ELSE IF is_yawning THEN current - PENALTY_YAWN
    ELSE current + RECOVERY_NORMAL

\* Mutant of EnergyUpdate: a frame without closed eye or yawn recovers 10.
EnergyUpdate_RecoversTen(current, is_eye_closed, is_yawning, closed_seq) ==
    IF is_eye_closed
    THEN current - PENALTY_EYE_CLOSED - (IF closed_seq >= 2 THEN PENALTY_CONSECUTIVE ELSE 0)
    ELSE IF is_yawning THEN current - PENALTY_YAWN
    ELSE current + 2 * RECOVERY_NORMAL

\* Mutant of EnergyUpdate: a normal frame recovers no energy.
EnergyUpdate_NoRecovery(current, is_eye_closed, is_yawning, closed_seq) ==
    IF is_eye_closed
    THEN current - PENALTY_EYE_CLOSED
                 - (IF closed_seq >= 2 THEN PENALTY_CONSECUTIVE ELSE 0)
    ELSE IF is_yawning
         THEN current - PENALTY_YAWN
         ELSE current

\* Lines 192-200: the energy after the penalty or recovery of one frame.
EnergyUpdate(current, is_eye_closed, is_yawning, closed_seq) ==
    IF is_eye_closed
    THEN current - PENALTY_EYE_CLOSED
                 - (IF closed_seq >= 2 THEN PENALTY_CONSECUTIVE ELSE 0)
    ELSE IF is_yawning
         THEN current - PENALTY_YAWN
         ELSE current + RECOVERY_NORMAL

\* Mutant of ClampEnergy: the lower bound is missing.
ClampEnergy_NoFloor(e) == Min(e, MAX_ENERGY)

\* Line 203
ClampEnergy(e) == Max(0, Min(e, MAX_ENERGY))

\* Mutant of ProcessSample: the closed run is not carried from frame to frame
\* (curr_closed_seq restarts at every frame).
ProcessSample_NoRun(s, sample) ==
    LET is_eye_closed == sample.ear < EYE_AR_THRESH
        is_yawning == sample.mar > MAR_THRESH
        closed_seq == IF is_eye_closed THEN 1 ELSE 0
        upd == TrendUpdate(s.trend_analyzer, sample.ear, sample.mar)
        energy == ClampEnergy(EnergyUpdate(s.current_energy, is_eye_closed,
                                           is_yawning, closed_seq))
    IN  [trend_analyzer |-> upd.ta,
         max_warning_level |-> Max(s.max_warning_level, upd.level),
         current_warning |-> upd.level,
         curr_closed_seq |-> closed_seq,
         max_closed_seq |-> IF is_eye_closed THEN s.max_closed_seq
                            ELSE Max(s.max_closed_seq, s.curr_closed_seq),
         total_closed_frames |-> s.total_closed_frames
                                 + (IF is_eye_closed THEN 1 ELSE 0),
         valid_frame_count |-> s.valid_frame_count + 1,
         current_energy |-> energy,
         min_energy_recorded |-> IF energy < s.min_energy_recorded
                                 THEN energy ELSE s.min_energy_recorded,
         FACE_MESH |-> sample.mesh]

\* Lines 174 and 177-205: the loop body on the sample of a frame that decoded.
ProcessSample(s, sample) ==
    LET is_eye_closed == sample.ear < EYE_AR_THRESH
        is_yawning == sample.mar > MAR_THRESH
        closed_seq == IF is_eye_closed THEN s.curr_closed_seq + 1 ELSE 0
        upd == TrendUpdate(s.trend_analyzer, sample.ear, sample.mar)
        energy == ClampEnergy(EnergyUpdate(s.current_energy, is_eye_closed,
                                           is_yawning, closed_seq))
    IN  [trend_analyzer |-> upd.ta,
         max_warning_level |-> Max(s.max_warning_level, upd.level),
         current_warning |-> upd.level,
         curr_closed_seq |-> closed_seq,
         max_closed_seq |-> IF is_eye_closed THEN s.max_closed_seq
                            ELSE Max(s.max_closed_seq, s.curr_closed_seq),
         total_closed_frames |-> s.total_closed_frames
                                 + (IF is_eye_closed THEN 1 ELSE 0),
         valid_frame_count |-> s.valid_frame_count + 1,
         current_energy |-> energy,
         min_energy_recorded |-> IF energy < s.min_energy_recorded
                                 THEN energy ELSE s.min_energy_recorded,
         FACE_MESH |-> sample.mesh]

\* Mutant of ProcessImage: a frame in which no face is found is skipped
\* instead of being scored as the sample (0, 0).
ProcessImage_SkipNoFace(s, frame) ==
    IF FaceMeshProcess(s.FACE_MESH, frame).found
    THEN ProcessSample(s, calculate_ear_mar_on_frame(s.FACE_MESH, frame))
    ELSE [s EXCEPT !.FACE_MESH = FaceMeshProcess(s.FACE_MESH, frame).mesh]

\* Lines 174-205: the loop body on a frame that decoded.
ProcessImage(s, frame) ==
    ProcessSample(s, calculate_ear_mar_on_frame(s.FACE_MESH, frame))

\* Mutant of ProcessFrame: the `if frame is None: continue` is missing, so a
\* frame that decodes to None reaches _calculate_ear_mar_on_frame, which
\* returns (0, 0) for it.
ProcessFrame_NoneScored(s, frame_bytes) ==
    IF Decodable(frame_bytes) THEN ProcessImage(s, frame_bytes)
    ELSE IF Decode(frame_bytes) = "none"
         THEN ProcessSample(s, [ear |-> 0, mar |-> 0, mesh |-> s.FACE_MESH])
         ELSE s

\* Lines 163-205: one iteration of the for-loop.  A frame that does not
\* decode (an exception, or None) takes a `continue`.
ProcessFrame(s, frame_bytes) ==
    IF Decodable(frame_bytes) THEN ProcessImage(s, frame_bytes) ELSE s

\* Mutant of PerclosHigh: the piece is flat at 0.8.
PerclosHigh_Flat(perclos) == Rat(8, 10)

\* Mutant of PerclosHigh: the sign of the excess over 0.3 slipped.
PerclosHigh_SignSlip(perclos) == RatSub(Rat(8, 10), RatSub(perclos, Rat(3, 10)))

\* Line 225: the piece for perclos >= 0.3
PerclosHigh(perclos) == RatAdd(Rat(8, 10), RatSub(perclos, Rat(3, 10)))

\* Mutant of PerclosMid: the slope of the piece is 0.3 instead of 0.4.
PerclosMid_Slope(perclos) ==
    RatAdd(Rat(4, 10),
           RatMul(RatDiv(RatSub(perclos, Rat(15, 100)), Rat(15, 100)), Rat(3, 10)))

\* Line 227: the piece for 0.15 <= perclos < 0.3
PerclosMid(perclos) ==
    RatAdd(Rat(4, 10),
           RatMul(RatDiv(RatSub(perclos, Rat(15, 100)), Rat(15, 100)), Rat(4, 10)))

\* Line 229: the piece for perclos < 0.15
PerclosLow(perclos) == RatMul(perclos, Rat(2, 1))

\* Lines 220-229
PerclosScore(perclos) ==
    IF RatLE(Rat(3, 10), perclos) THEN PerclosHigh(perclos)
    ELSE IF RatLE(Rat(15, 100), perclos) THEN PerclosMid(perclos)
    ELSE PerclosLow(perclos)

\* Mutant of EnergyScore: the score is taken from the energy that is left.
EnergyScore_Left(min_energy) == Rat(min_energy, 100)

\* Line 218
EnergyScore(min_energy) == Rat(100 - min_energy, 100)

\* Mutant of ClampScore: the cap at 0.99 is missing.
ClampScore_NoCap(raw_score) == RatMax(raw_score, Rat(5, 100))

\* Lines 240-244
ClampScore(raw_score) == RatMax(RatMin(raw_score, Rat(99, 100)), Rat(5, 100))

\* Mutant of FinalLevel: the override needs three closed frames in a row.
FinalLevel_Three(max_level, max_closed) == IF max_closed >= 3 THEN 2 ELSE max_level

\* Lines 234-237
FinalLevel(max_level, max_closed) == IF max_closed >= 2 THEN 2 ELSE max_level

\* Mutant of PassReturn: the level is taken from the last warning, not from
\* the highest one.
PassReturn_LastWarning(s) ==
    LET closed_seq == Max(s.max_closed_seq, s.curr_closed_seq) IN
    IF s.valid_frame_count = 0
    THEN [score |-> Rat(0, 1), level |-> 0]
    ELSE LET energy_score == EnergyScore(s.min_energy_recorded)
             perclos == Rat(s.total_closed_frames, s.valid_frame_count)
             raw_score == RatMax(energy_score, PerclosScore(perclos))
         IN  [score |-> ClampScore(raw_score),
              level |-> FinalLevel(s.current_warning, closed_seq)]

\* Mutant of PassReturn: the override looks at the run the pass ended in,
\* not at the longest one.
PassReturn_CurrentRun(s) ==
    IF s.valid_frame_count = 0
    THEN [score |-> Rat(0, 1), level |-> 0]
    ELSE LET energy_score == EnergyScore(s.min_energy_recorded)
             perclos == Rat(s.total_closed_frames, s.valid_frame_count)
             raw_score == RatMax(energy_score, PerclosScore(perclos))
         IN  [score |-> ClampScore(raw_score),
              level |-> FinalLevel(s.max_warning_level, s.curr_closed_seq)]

\* Mutant of PassReturn: the valid_frame_count == 0 guard is missing.
PassReturn_NoGuard(s) ==
    LET closed_seq == Max(s.max_closed_seq, s.curr_closed_seq)
        energy_score == EnergyScore(s.min_energy_recorded)
        perclos == Rat(s.total_closed_frames, s.valid_frame_count)
        raw_score == RatMax(energy_score, PerclosScore(perclos))
    IN  [score |-> ClampScore(raw_score),
         level |-> FinalLevel(s.max_warning_level, closed_seq)]

\* Lines 207-246: what the pass returns once the loop is over.
PassReturn(s) ==
    LET closed_seq == Max(s.max_closed_seq, s.curr_closed_seq) IN
    IF s.valid_frame_count = 0
    THEN [score |-> Rat(0, 1), level |-> 0]
    ELSE LET energy_score == EnergyScore(s.min_energy_recorded)
             perclos == Rat(s.total_closed_frames, s.valid_frame_count)
             raw_score == RatMax(energy_score, PerclosScore(perclos))
         IN  [score |-> ClampScore(raw_score),
              level |-> FinalLevel(s.max_warning_level, closed_seq)]

\* Lines 163-205: the state of a pass after the for-loop has run over the
\* frames of a list, in order.  (The test s # s never holds; it has the state
\* evaluated before the next frame is taken.)
RECURSIVE RunFrames(_, _)
RunFrames(s, frames) ==
    IF frames = <<>> \/ s # s THEN s
    ELSE RunFrames(ProcessFrame(s, Head(frames)), Tail(frames))

\* _calculate_fatigue_metrics as a function of its argument and of the state
\* FACE_MESH is in when it is called: [score, level, mesh].
calculate_fatigue_metrics(frames, mesh) ==
    IF frames = <<>> THEN [score |-> Rat(0, 1), level |-> 0, mesh |-> mesh]
    ELSE LET s == RunFrames(PassInit(mesh), frames)
             r == PassReturn(s)
         IN  [score |-> r.score, level |-> r.level, mesh |-> s.FACE_MESH]

-----------------------------------------------------------------------------
(* Inputs: the frame lists predict_fatigue is called with.                 *)

\* Line 285
batch_size == 30

\* Mutant of MIN_GROUP_FRAMES: the minimum is one frame short.
MIN_GROUP_FRAMES_Short == batch_size - 1

\* Line 280
MIN_GROUP_FRAMES == 30

RECURSIVE SeqsUpTo(_, _)
\* Every sequence over S of length at most n.
SeqsUpTo(S, n) ==
    IF n = 0 THEN {<<>>}
    ELSE LET shorter == SeqsUpTo(S, n - 1) IN
         shorter \cup {Append(s, x) : s \in {q \in shorter : Len(q) = n - 1}, x \in S}

\* A patterned list of n frames: runs[1] frames A, then runs[2] frames B,
\* repeated.
Patterned(A, B, runs, n) ==
    [j \in 1..n |-> IF (j - 1) % (runs[1] + runs[2]) < runs[1] THEN A ELSE B]

\* The kinds of the second run of a patterned list (the first run is of any
\* kind).
SecondKinds == {"nodecode", "faint", "open", "droopy", "closed", "shut", "yawn"}

\* Run lengths of the patterned lists.
RunLengths == {<<1, 1>>, <<5, 5>>, <<CALIBRATION_FRAMES, TREND_WINDOW>>}

\* Run lengths that put PERCLOS on 0.3 and on 0.15, for closed-eye frames
\* among open-eye ones.
BreakpointRuns == {<<3, 7>>, <<3, 17>>}

PatternLens ==
    {CALIBRATION_FRAMES, TREND_WINDOW + 1, batch_size + CALIBRATION_FRAMES}
    \cup {batch_size - 1}
    \cup {k * batch_size + d : k \in 1..MaxGroups, d \in {0, 1}}

\* 40 frames, all with wide-open eyes.
WideOpen40 == [j \in 1..(batch_size + CALIBRATION_FRAMES) |-> "wide"]

\* 5 closed-eye frames (ear 0.05) then 5 open-eye frames, three times.
ClosedOpen30 == Patterned("shut", "open", <<5, 5>>, batch_size)

\* 10 frames with ear 0.30, then 20 frames with ear 0.10; no yawn.
OpenThenClosed30 ==
    Patterned("open", "closed", <<CALIBRATION_FRAMES, TREND_WINDOW>>, batch_size)

\* 20 open-eye frames, but for the 11th and 12th, which are closed-eye.
OpenTwoClosedOpen20 ==
    [j \in 1..TREND_WINDOW |->
        IF j \in {CALIBRATION_FRAMES + 1, CALIBRATION_FRAMES + 2} THEN "closed" ELSE "open"]

FrameLists ==
    SeqsUpTo(FrameKinds, MaxShort)
    \cup {WideOpen40, ClosedOpen30, OpenThenClosed30, OpenTwoClosedOpen20}
    \cup {Patterned(A, B, runs, n) :
            A \in FrameKinds, B \in SecondKinds, runs \in RunLengths, n \in PatternLens}
    \cup {Patterned(A, B, runs, n) :
            A \in {"shut", "noface"}, B \in {"open", "yawn"},
            runs \in BreakpointRuns, n \in PatternLens}

-----------------------------------------------------------------------------
(* database_config.get_redis_pool                                          *)

PoolCalls == 1..MaxPoolCalls

\* redis.from_url(settings.REDIS_URL, ...): it raises on a URL it rejects and
\* otherwise builds a new client (clients are numbered as they are built).
from_url(url_ok, built) ==
    IF url_ok THEN [raised |-> FALSE, client |-> <<built + 1>>]
    ELSE [raised |-> TRUE, client |-> None]

\* Nothing of this part has run: _redis = None (line 22).
RedisIdle ==
    /\ _redis = None
    /\ REDIS_URL = TRUE
    /\ clients_created = 0
    /\ pool_calls = [t \in PoolCalls |-> [pc |-> "idle", result |-> None, raised |-> FALSE]]

\* A get_redis_pool() coroutine is put on the event loop (a task is created
\* for it, or it is awaited); it has not run yet.
SpawnPoolCall(t) ==
    /\ pool_calls[t].pc = "idle"
    /\ pool_calls' = [pool_calls EXCEPT ![t].pc = "ready"]
    /\ UNCHANGED <<_redis, REDIS_URL, clients_created>>
    /\ UNCHANGED <<videovars, dbvars, repovars, trendvars>>

\* Mutant of get_redis_pool: the `if _redis is None` test is missing.
get_redis_pool_NoTest(t) ==
    /\ pool_calls[t].pc = "ready"
    /\ LET made == from_url(REDIS_URL, clients_created) IN
       IF made.raised
       THEN /\ pool_calls' = [pool_calls EXCEPT
                                 ![t] = [pc |-> "done", result |-> None, raised |-> TRUE]]
            /\ UNCHANGED <<_redis, clients_created>>
       ELSE /\ _redis' = made.client
            /\ clients_created' = clients_created + 1
            /\ pool_calls' = [pool_calls EXCEPT
                                 ![t] = [pc |-> "done", result |-> made.client,
                                         raised |-> FALSE]]
    /\ UNCHANGED REDIS_URL
    /\ UNCHANGED <<videovars, dbvars, repovars, trendvars>>

\* Lines 25-39.  The body has no await: once the event loop runs the
\* coroutine it runs to its return (or to the exception of from_url) with no
\* other coroutine in between.
get_redis_pool(t) ==
    /\ pool_calls[t].pc = "ready"
    /\ IF _redis = None
       THEN LET made == from_url(REDIS_URL, clients_created) IN
            IF made.raised
            THEN /\ pool_calls' = [pool_calls EXCEPT
                                      ![t] = [pc |-> "done", result |-> None,
                                              raised |-> TRUE]]
                 /\ UNCHANGED <<_redis, clients_created>>
            ELSE /\ _redis' = made.client
                 /\ clients_created' = clients_created + 1
                 /\ pool_calls' = [pool_calls EXCEPT
                                      ![t] = [pc |-> "done", result |-> made.client,
                                              raised |-> FALSE]]
       ELSE /\ pool_calls' = [pool_calls EXCEPT
                                 ![t] = [pc |-> "done", result |-> _redis, raised |-> FALSE]]
            /\ UNCHANGED <<_redis, clients_created>>
    /\ UNCHANGED REDIS_URL
    /\ UNCHANGED <<videovars, dbvars, repovars, trendvars>>

-----------------------------------------------------------------------------
(* database_config.get_db                                                  *)

(* get_db is an async generator.  Its consumers are of two kinds.          *)
(*   "async_for": `async for db_session in get_db(): ... return ...`, the  *)
(*     form of every use in services/storage_service.py.  The body leaves  *)
(*     the loop by return or by an exception; the loop does not resume the *)
(*     generator, which stays suspended at its yield until the event loop  *)
(*     finalizes it with aclose(), i.e. with GeneratorExit at the yield.   *)
(*   "driver": the consumer resumes the generator itself, with __anext__() *)
(*     after a body that raised nothing and with athrow(exc) after a body  *)
(*     that raised exc, as tests/test_database.py does.                    *)
UseKinds == {"async_for", "driver"}

\* No exception / an exception of class Exception / GeneratorExit.
NoExc == "none"

\* A use of get_db that has not begun.
NoUse ==
    [kind |-> "none", pc |-> "idle", body |-> "none", exc |-> NoExc,
     commit |-> 0, commit_raised |-> FALSE, rollback |-> 0, close |-> 0,
     caller |-> "waiting", closed_at_caller |-> FALSE]

DbIdle ==
    /\ db_use = NoUse
    /\ db_log = <<>>

\* Lines 47-51: get_db() is called and run to its yield; the consumer holds
\* the session.
OpenSession(kind) ==
    /\ db_use.pc = "idle"
    /\ Len(db_log) < MaxDbUses
    /\ db_use' = [NoUse EXCEPT !.kind = kind, !.pc = "yielded"]
    /\ UNCHANGED <<db_log, videovars, redisvars, repovars, trendvars>>

\* The consumer's body ends, having raised or not.
\*   async_for: the return value or the exception leaves the loop and reaches
\*     the caller at once; the generator is left at its yield.
\*   driver: __anext__() resumes the generator after line 51; athrow(exc)
\*     raises exc at line 51, which `except Exception` (line 53) catches.
BodyEnds(raised) ==
    /\ db_use.pc = "yielded"
    /\ db_use' =
         IF db_use.kind = "async_for"
         THEN [db_use EXCEPT !.body = IF raised THEN "raised" ELSE "ok",
                             !.pc = "abandoned",
                             !.caller = IF raised THEN "raised" ELSE "returned",
                             !.closed_at_caller = FALSE]
         ELSE IF raised
         THEN [db_use EXCEPT !.body = "raised", !.pc = "rollback", !.exc = "Exception"]
         ELSE [db_use EXCEPT !.body = "ok", !.pc = "commit"]
    /\ UNCHANGED <<db_log, videovars, redisvars, repovars, trendvars>>

\* Line 52: await session.commit(), which succeeds or raises.
Commit(raises) ==
    /\ db_use.pc = "commit"
    /\ db_use' = IF raises
                 THEN [db_use EXCEPT !.commit = @ + 1, !.commit_raised = TRUE,
                                     !.pc = "rollback", !.exc = "Exception"]
                 ELSE [db_use EXCEPT !.commit = @ + 1, !.pc = "close"]
    /\ UNCHANGED <<db_log, videovars, redisvars, repovars, trendvars>>

\* Lines 53-56: await session.rollback(), then `raise`.
Rollback ==
    /\ db_use.pc = "rollback"
    /\ db_use' = [db_use EXCEPT !.rollback = @ + 1, !.pc = "close"]
    /\ UNCHANGED <<db_log, videovars, redisvars, repovars, trendvars>>

\* The event loop finalizes the generator a consumer left at its yield:
\* aclose() raises GeneratorExit at line 51.  GeneratorExit is no Exception,
\* so line 53 does not catch it and only the finally clause runs.
Finalize ==
    /\ db_use.pc = "abandoned"
    /\ db_use' = [db_use EXCEPT !.pc = "close", !.exc = "GeneratorExit"]
    /\ UNCHANGED <<db_log, videovars, redisvars, repovars, trendvars>>

\* Lines 57-59: await session.close(); then the generator ends.  A driver
\* gets StopAsyncIteration (the use returned) or the exception in flight;
\* aclose() keeps GeneratorExit to itself.
Close ==
    /\ db_use.pc = "close"
    /\ db_use' =
         IF db_use.kind = "driver"
         THEN [db_use EXCEPT !.close = @ + 1, !.pc = "closed",
                             !.caller = IF db_use.exc = NoExc THEN "returned" ELSE "raised",
                             !.closed_at_caller = TRUE]
         ELSE [db_use EXCEPT !.close = @ + 1, !.pc = "closed"]
    /\ UNCHANGED <<db_log, videovars, redisvars, repovars, trendvars>>

\* The use is over; the next one may begin.
UseOver ==
    /\ db_use.pc = "closed"
    /\ db_log' = Append(db_log, db_use)
    /\ db_use' = NoUse
    /\ UNCHANGED <<videovars, redisvars, repovars, trendvars>>

-----------------------------------------------------------------------------
(* repository/cache_aside_storage.py: CacheAsideRepository, heart rate     *)

RepoCalls == 1..MaxRepoCalls

\* A heart-rate entry of a request is <<timestamp, value>>; the entries have
\* the same timestamp, later than that of the row the table may begin with.
HeartEntries == {<<2, 80>>, <<2, 90>>}

\* The calls are numbered in the order in which they begin.
NextToBegin(c) ==
    /\ repo_calls[c].pc = "idle"
    /\ \A d \in RepoCalls : d < c => repo_calls[d].pc # "idle"

\* data.heart_rate of a request: no entry, one or two.
HeartRates ==
    {<<>>} \cup {<<entry>> : entry \in HeartEntries}
           \cup {<<entry, other>> : entry \in HeartEntries, other \in HeartEntries}

\* A user_id argument: whether it is a str, and its text.
UserIds ==
    {[is_str |-> TRUE, text |-> "u1"], [is_str |-> TRUE, text |-> ""],
     [is_str |-> FALSE, text |-> "7"]}

\* Line 73: `not user_id or not isinstance(user_id, str)` is false.
ValidUserId(user_id) == user_id.text # "" /\ user_id.is_str

DEFAULT_LIMIT == 300
DEFAULT_TTL == 3600

Limits == {1, DEFAULT_LIMIT}
Ttls == {60, DEFAULT_TTL}

\* json.dumps of a list of numbers: the text "[", the numbers, "]".
JsonDumps(data) == [brackets |-> 2, items |-> data]

\* json.loads of such a text.
JsonLoads(text) == text.items

\* len() of such a text (each number takes at least one character).
StrLen(text) == text.brackets + Len(text.items)

\* Nothing is stored under the key.
NoKey == [exists |-> FALSE, text |-> JsonDumps(<<>>), ex |-> 0]

\* Line 78: `if cache_data:` for what redis.get returned (None when the key
\* does not exist, else the stored text).
Truthy(cache_data) == cache_data.exists /\ StrLen(cache_data.text) > 0

\* The rows in an order the query of lines 83-87 may return them in: by
\* timestamp, latest first; rows with equal timestamps in either order.
RECURSIVE LatestFirst(_)
LatestFirst(rows) ==
    IF rows = <<>> THEN {<<>>}
    ELSE LET ids == 1..Len(rows)
             tops == {k \in ids : \A j \in ids : rows[j][1] <= rows[k][1]}
             Without(k) == [j \in 1..(Len(rows) - 1) |->
                               IF j < k THEN rows[j] ELSE rows[j + 1]]
         IN  UNION {{<<rows[k]>> \o rest : rest \in LatestFirst(Without(k))} : k \in tops}

\* Lines 83-91: the value lists the query may give: latest first, at most
\* limit of them.
QueryLatest(rows, limit) ==
    {[j \in 1..Min(limit, Len(ordered)) |-> ordered[j][2]] : ordered \in LatestFirst(rows)}

\* A call that has not begun.
NoCall ==
    [op |-> "none", pc |-> "idle", heart_rate |-> <<>>, ttl |-> 0, limit |-> 0,
     session |-> <<>>, add |-> 0, commit |-> 0, commit_raised |-> FALSE,
     delete |-> 0, delete_raised |-> FALSE,
     get |-> 0, hit |-> FALSE, execute |-> 0, set |-> 0, data |-> <<>>,
     outcome |-> "none", returned |-> <<>>]

RepoIdle ==
    /\ db_rows = <<>>
    /\ redis_kv = NoKey
    /\ repo_calls = [c \in RepoCalls |-> NoCall]

\* Lines 43-51: insert_heart_data is called; the for-loop adds one
\* HeartRateDataDB per entry to the session, up to `await commit()`.
insert_heart_data(c, heart_rate) ==
    /\ NextToBegin(c)
    /\ repo_calls' = [repo_calls EXCEPT
                         ![c] = [NoCall EXCEPT !.op = "insert", !.pc = "commit",
                                               !.heart_rate = heart_rate,
                                               !.session = heart_rate,
                                               !.add = Len(heart_rate),
                                               !.outcome = "running"]]
    /\ UNCHANGED <<db_rows, redis_kv, videovars, redisvars, dbvars, trendvars>>

\* Mutant of insert_commit: an exception of commit is caught and the call
\* goes on to delete the cache key.
insert_commit_Caught(c, raises) ==
    /\ repo_calls[c].pc = "commit"
    /\ IF raises
       THEN /\ repo_calls' = [repo_calls EXCEPT ![c].commit = @ + 1,
                                                ![c].commit_raised = TRUE,
                                                ![c].pc = "delete"]
            /\ UNCHANGED db_rows
       ELSE /\ repo_calls' = [repo_calls EXCEPT ![c].commit = @ + 1,
                                                ![c].session = <<>>,
                                                ![c].pc = "delete"]
            /\ db_rows' = db_rows \o repo_calls[c].session
    /\ UNCHANGED <<redis_kv, videovars, redisvars, dbvars, trendvars>>

\* Line 51: await self.db_session.commit().  It writes the session's rows,
\* or raises; the exception leaves insert_heart_data.
insert_commit(c, raises) ==
    /\ repo_calls[c].pc = "commit"
    /\ IF raises
       THEN /\ repo_calls' = [repo_calls EXCEPT ![c].commit = @ + 1,
                                                ![c].commit_raised = TRUE,
                                                ![c].pc = "done",
                                                ![c].outcome = "raised"]
            /\ UNCHANGED db_rows
       ELSE /\ repo_calls' = [repo_calls EXCEPT ![c].commit = @ + 1,
                                                ![c].session = <<>>,
                                                ![c].pc = "delete"]
            /\ db_rows' = db_rows \o repo_calls[c].session
    /\ UNCHANGED <<redis_kv, videovars, redisvars, dbvars, trendvars>>

\* Mutant of insert_delete: an exception of redis.delete is not caught.
insert_delete_Uncaught(c, raises) ==
    /\ repo_calls[c].pc = "delete"
    /\ IF raises
       THEN /\ repo_calls' = [repo_calls EXCEPT ![c].delete = @ + 1,
                                                ![c].delete_raised = TRUE,
                                                ![c].pc = "done",
                                                ![c].outcome = "raised"]
            /\ UNCHANGED redis_kv
       ELSE /\ repo_calls' = [repo_calls EXCEPT ![c].delete = @ + 1,
                                                ![c].pc = "done",
                                                ![c].outcome = "returned"]
            /\ redis_kv' = NoKey
    /\ UNCHANGED <<db_rows, videovars, redisvars, dbvars, trendvars>>

\* Lines 52-58: await self.redis.delete(cache_key).  It removes the key, or
\* raises an Exception, which is logged; insert_heart_data returns None.
insert_delete(c, raises) ==
    /\ repo_calls[c].pc = "delete"
    /\ IF raises
       THEN /\ repo_calls' = [repo_calls EXCEPT ![c].delete = @ + 1,
                                                ![c].delete_raised = TRUE,
                                                ![c].pc = "done",
                                                ![c].outcome = "returned"]
            /\ UNCHANGED redis_kv
       ELSE /\ repo_calls' = [repo_calls EXCEPT ![c].delete = @ + 1,
                                                ![c].pc = "done",
                                                ![c].outcome = "returned"]
            /\ redis_kv' = NoKey
    /\ UNCHANGED <<db_rows, videovars, redisvars, dbvars, trendvars>>

\* Lines 73-77: get_latest_heart_data is called; it raises ValueError on an
\* invalid user_id and otherwise goes up to `await redis.get(cache_key)`.
get_latest_heart_data(c, user_id, limit, ttl) ==
    /\ NextToBegin(c)
    /\ repo_calls' = [repo_calls EXCEPT
                         ![c] = IF ValidUserId(user_id)
                                THEN [NoCall EXCEPT !.op = "get", !.pc = "get",
                                                    !.limit = limit, !.ttl = ttl,
                                                    !.outcome = "running"]
                                ELSE [NoCall EXCEPT !.op = "get", !.pc = "done",
                                                    !.outcome = "raised"]]
    /\ UNCHANGED <<db_rows, redis_kv, videovars, redisvars, dbvars, trendvars>>

\* Lines 77-80: redis.get answers; on a hit the cached list is returned.
\* (redis.get, execute and redis.set answer here; an exception of one of
\* them would leave the method, which catches none.)
get_cache(c) ==
    /\ repo_calls[c].pc = "get"
    /\ LET cache_data == redis_kv IN
       repo_calls' = [repo_calls EXCEPT
                         ![c] = IF Truthy(cache_data)
                                THEN [@ EXCEPT !.get = @ + 1, !.hit = TRUE,
                                               !.pc = "done", !.outcome = "returned",
                                               !.returned = JsonLoads(cache_data.text)]
                                ELSE [@ EXCEPT !.get = @ + 1, !.pc = "execute"]]
    /\ UNCHANGED <<db_rows, redis_kv, videovars, redisvars, dbvars, trendvars>>

\* Mutant of get_execute: the values are written to the cache also when the
\* list is empty.
get_execute_SetsEmpty(c) ==
    /\ repo_calls[c].pc = "execute"
    /\ \E data \in QueryLatest(db_rows, repo_calls[c].limit) :
           repo_calls' = [repo_calls EXCEPT
                             ![c] = [@ EXCEPT !.execute = @ + 1, !.data = data,
                                              !.pc = "set"]]
    /\ UNCHANGED <<db_rows, redis_kv, videovars, redisvars, dbvars, trendvars>>

\* Lines 82-93 and 97: the query answers; an empty list is returned as it is.
get_execute(c) ==
    /\ repo_calls[c].pc = "execute"
    /\ \E data \in QueryLatest(db_rows, repo_calls[c].limit) :
           repo_calls' = [repo_calls EXCEPT
                             ![c] = IF data # <<>>
                                    THEN [@ EXCEPT !.execute = @ + 1, !.data = data,
                                                   !.pc = "set"]
                                    ELSE [@ EXCEPT !.execute = @ + 1, !.data = data,
                                                   !.pc = "done",
                                                   !.outcome = "returned",
                                                   !.returned = data]]
    /\ UNCHANGED <<db_rows, redis_kv, videovars, redisvars, dbvars, trendvars>>

\* Lines 94-97: redis.set(cache_key, json.dumps(data), ex=ttl); data is
\* returned.
get_set(c) ==
    /\ repo_calls[c].pc = "set"
    /\ redis_kv' = [exists |-> TRUE, text |-> JsonDumps(repo_calls[c].data),
                    ex |-> repo_calls[c].ttl]
    /\ repo_calls' = [repo_calls EXCEPT ![c].set = @ + 1, ![c].pc = "done",
                                        ![c].outcome = "returned",
                                        ![c].returned = repo_calls[c].data]
    /\ UNCHANGED <<db_rows, videovars, redisvars, dbvars, trendvars>>

-----------------------------------------------------------------------------
(* A FatigueTrendAnalyzer on its own                                       *)

\* Line 57: def __init__(self, window_size=30).
DEFAULT_WINDOW_SIZE == 30

\* FatigueTrendAnalyzer(*args): args is <<>> or <<window_size>>.
NewTrendAnalyzer(args) ==
    FatigueTrendAnalyzer(IF args = <<>> THEN DEFAULT_WINDOW_SIZE ELSE args[1])

\* The (ear, mar) sample of a frame; (0, 0) stands for a frame with no face.
SampleOf(frame) ==
    IF frame = "noface" THEN <<0, 0>> ELSE <<LandmarkEAR(frame), LandmarkMAR(frame)>>

\* The sample streams: MaxUpdates samples in runs of two kinds.
SampleStreams ==
    {[j \in 1..MaxUpdates |-> SampleOf(Patterned(A, B, runs, MaxUpdates)[j])] :
        A \in {"open", "wide", "yawn"},
        B \in {"open", "edge", "closed", "yawn", "shutyawn", "noface"},
        runs \in RunLengths}

TrendIdle ==
    /\ ta_args = <<TREND_WINDOW>>
    /\ analyzer = NewTrendAnalyzer(ta_args)
    /\ ta_samples = <<>>
    /\ ta_fed = 0
    /\ ta_level = 0

\* update(current_ear, current_mar) with the next sample.
UpdateAnalyzer ==
    /\ ta_fed < Len(ta_samples)
    /\ LET sample == ta_samples[ta_fed + 1]
           r == TrendUpdate(analyzer, sample[1], sample[2])
       IN  /\ analyzer' = r.ta
           /\ ta_level' = r.level
    /\ ta_fed' = ta_fed + 1
    /\ UNCHANGED <<ta_args, ta_samples, videovars, redisvars, dbvars, repovars>>

-----------------------------------------------------------------------------
(* The state machine.                                                      *)

passvars == <<trend_analyzer, max_warning_level, current_warning, curr_closed_seq,
              max_closed_seq, total_closed_frames, valid_frame_count,
              current_energy, min_energy_recorded>>

callvars == <<overall_score, overall_level, group_scores, i>>

\* The locals of the running pass, and FACE_MESH, as one record.
PassState ==
    [trend_analyzer |-> trend_analyzer,
     max_warning_level |-> max_warning_level,
     current_warning |-> current_warning,
     curr_closed_seq |-> curr_closed_seq,
     max_closed_seq |-> max_closed_seq,
     total_closed_frames |-> total_closed_frames,
     valid_frame_count |-> valid_frame_count,
     current_energy |-> current_energy,
     min_energy_recorded |-> min_energy_recorded,
     FACE_MESH |-> FACE_MESH]

SetPassState(s) ==
    /\ trend_analyzer' = s.trend_analyzer
    /\ max_warning_level' = s.max_warning_level
    /\ current_warning' = s.current_warning
    /\ curr_closed_seq' = s.curr_closed_seq
    /\ max_closed_seq' = s.max_closed_seq
    /\ total_closed_frames' = s.total_closed_frames
    /\ valid_frame_count' = s.valid_frame_count
    /\ current_energy' = s.current_energy
    /\ min_energy_recorded' = s.min_energy_recorded
    /\ FACE_MESH' = s.FACE_MESH

\* Lines 142-161: _calculate_fatigue_metrics is entered with a non-empty list
\* (both call sites pass one) and initialises its locals.
BeginPass(frames) ==
    /\ frames_subset' = frames
    /\ pos' = 0
    /\ observed' = <<>>
    /\ SetPassState(PassInit(FACE_MESH))

\* The for-loop takes the next frame of frames_subset: one iteration of lines
\* 163-205.  The histories record the index of the frame and, when the
\* frame decoded, the sample and the level, run and energy the body left.
TakeFrame ==
    /\ pos' = pos + 1
    /\ SetPassState(ProcessFrame(PassState, frames_subset[pos + 1]))
    /\ visited' = Append(visited, (IF pc = "group" THEN i ELSE 0) + pos + 1)
    /\ observed' =
           IF Decodable(frames_subset[pos + 1])
           THEN Append(observed,
                       [ear |-> calculate_ear_mar_on_frame(FACE_MESH, frames_subset[pos + 1]).ear,
                        mar |-> calculate_ear_mar_on_frame(FACE_MESH, frames_subset[pos + 1]).mar,
                        level |-> current_warning',
                        energy |-> current_energy'])
           ELSE observed

\* Mutant of Batch: the slice is taken from the decodable frames only.
Batch_DecodableOnly(frames, start) ==
    SubSeq(SelectSeq(frames, Decodable), start + 1,
           Min(start + batch_size, Len(SelectSeq(frames, Decodable))))

\* Mutant of Batch: the slice is one frame short.
Batch_OneShort(frames, start) ==
    SubSeq(frames, start + 1, Min(start + batch_size - 1, Len(frames)))

\* frames_data[i : i + batch_size]
Batch(frames, start) ==
    SubSeq(frames, start + 1, Min(start + batch_size, Len(frames)))

Init ==
    /\ frames_data \in FrameLists
    /\ pc = "call"
    /\ calls = 0
    /\ FACE_MESH = FaceMeshInit
    /\ frames_subset = <<>>
    /\ pos = 0
    /\ trend_analyzer = PassInit(FaceMeshInit).trend_analyzer
    /\ max_warning_level = 0
    /\ current_warning = 0
    /\ curr_closed_seq = 0
    /\ max_closed_seq = 0
    /\ total_closed_frames = 0
    /\ valid_frame_count = 0
    /\ current_energy = INITIAL_ENERGY
    /\ min_energy_recorded = INITIAL_MIN_ENERGY
    /\ overall_score = Rat(0, 1)
    /\ overall_level = 0
    /\ group_scores = <<>>
    /\ i = 0
    /\ result = None
    /\ observed = <<>>
    /\ visited = <<>>
    /\ RedisIdle
    /\ DbIdle
    /\ RepoIdle
    /\ TrendIdle

\* Mutant of ReturnDefault: the default score is the floor of the clamp.
ReturnDefault_Floor ==
    /\ pc = "call"
    /\ frames_data = <<>>
    /\ calls' = calls + 1
    /\ result' = <<<<>>, Rat(5, 100), 0>>
    /\ pc' = "done"
    /\ visited' = <<>>
    /\ UNCHANGED <<frames_data, FACE_MESH, frames_subset, pos, passvars, callvars, observed>>
    /\ UNCHANGED extvars

\* Lines 263-265: predict_fatigue on an empty list.
ReturnDefault ==
    /\ pc = "call"
    /\ frames_data = <<>>
    /\ calls' = calls + 1
    /\ result' = <<<<>>, Rat(0, 1), 0>>
    /\ pc' = "done"
    /\ visited' = <<>>
    /\ UNCHANGED <<frames_data, FACE_MESH, frames_subset, pos, passvars, callvars, observed>>
    /\ UNCHANGED extvars

\* Line 270: predict_fatigue calls the overall pass.
BeginOverall ==
    /\ pc = "call"
    /\ frames_data # <<>>
    /\ calls' = calls + 1
    /\ BeginPass(frames_data)
    /\ pc' = "overall"
    /\ visited' = <<>>
    /\ UNCHANGED <<frames_data, callvars, result>>
    /\ UNCHANGED extvars

InPass == pc \in {"overall", "group"}

\* Lines 165-169: decoding the next frame raises.
DecodeRaises ==
    /\ InPass
    /\ pos < Len(frames_subset)
    /\ Decode(frames_subset[pos + 1]) = "raise"
    /\ TakeFrame
    /\ UNCHANGED <<frames_data, pc, calls, frames_subset, callvars, result>>
    /\ UNCHANGED extvars

\* Lines 171-172: decoding the next frame yields None.
DecodeNone ==
    /\ InPass
    /\ pos < Len(frames_subset)
    /\ Decode(frames_subset[pos + 1]) = "none"
    /\ TakeFrame
    /\ UNCHANGED <<frames_data, pc, calls, frames_subset, callvars, result>>
    /\ UNCHANGED extvars

\* Lines 174-205: the next frame decodes and is scored.
ScoreFrame ==
    /\ InPass
    /\ pos < Len(frames_subset)
    /\ Decode(frames_subset[pos + 1]) = "image"
    /\ TakeFrame
    /\ UNCHANGED <<frames_data, pc, calls, frames_subset, callvars, result>>
    /\ UNCHANGED extvars

\* Mutant of EndPass: line 208 is missing.
EndPass_NoSettle ==
    /\ pos = Len(frames_subset)
    /\ UNCHANGED passvars

\* The pass returns (lines 207-246); line 208 settles max_closed_seq.
EndPass ==
    /\ pos = Len(frames_subset)
    /\ max_closed_seq' = Max(max_closed_seq, curr_closed_seq)
    /\ UNCHANGED <<trend_analyzer, max_warning_level, current_warning,
                   curr_closed_seq, total_closed_frames, valid_frame_count,
                   current_energy, min_energy_recorded>>

\* Lines 270-282 and 297: the overall pass returns and the list is too
\* short for groups.
OverallReturnsShort ==
    /\ pc = "overall"
    /\ EndPass
    /\ Len(frames_data) < MIN_GROUP_FRAMES
    /\ overall_score' = PassReturn(PassState).score
    /\ overall_level' = PassReturn(PassState).level
    /\ group_scores' = <<>>
    /\ result' = <<group_scores', overall_score', overall_level'>>
    /\ pc' = "done"
    /\ UNCHANGED <<frames_data, calls, FACE_MESH, frames_subset, pos, i, observed, visited>>
    /\ UNCHANGED extvars

\* Lines 270-292: the overall pass returns and the first group pass is called.
OverallReturnsGroups ==
    /\ pc = "overall"
    /\ pos = Len(frames_subset)
    /\ Len(frames_data) >= MIN_GROUP_FRAMES
    /\ overall_score' = PassReturn(PassState).score
    /\ overall_level' = PassReturn(PassState).level
    /\ group_scores' = <<>>
    /\ i' = 0
    /\ BeginPass(Batch(frames_data, 0))
    /\ pc' = "group"
    /\ UNCHANGED <<frames_data, calls, result, visited>>
    /\ UNCHANGED extvars

\* Lines 286-293: a group pass returns and the next one is called.
GroupReturnsNext ==
    /\ pc = "group"
    /\ pos = Len(frames_subset)
    /\ i + batch_size < Len(frames_data)
    /\ group_scores' = Append(group_scores, PassReturn(PassState).score)
    /\ i' = i + batch_size
    /\ BeginPass(Batch(frames_data, i'))
    /\ UNCHANGED <<frames_data, pc, calls, overall_score, overall_level, result, visited>>
    /\ UNCHANGED extvars

\* Lines 286-297: the last group pass returns and predict_fatigue returns.
GroupReturnsLast ==
    /\ pc = "group"
    /\ EndPass
    /\ i + batch_size >= Len(frames_data)
    /\ group_scores' = Append(group_scores, PassReturn(PassState).score)
    /\ result' = <<group_scores', overall_score, overall_level>>
    /\ pc' = "done"
    /\ UNCHANGED <<frames_data, calls, FACE_MESH, frames_subset, pos,
                   overall_score, overall_level, i, observed, visited>>
    /\ UNCHANGED extvars

\* ModelInterface.predict_video is called again: a new predictor object, the
\* same FACE_MESH, the same frames.
Reinvoke ==
    /\ pc = "done"
    /\ calls < MaxCalls
    /\ pc' = "call"
    /\ result' = None
    /\ UNCHANGED <<frames_data, calls, FACE_MESH, frames_subset, pos, passvars, callvars,
                   observed, visited>>
    /\ UNCHANGED extvars

Next ==
    \/ ReturnDefault
    \/ BeginOverall
    \/ DecodeRaises
    \/ DecodeNone
    \/ ScoreFrame
    \/ OverallReturnsShort
    \/ OverallReturnsGroups
    \/ GroupReturnsNext
    \/ GroupReturnsLast
    \/ Reinvoke

Spec == Init /\ [][Next]_vars

\* The control of a running invocation: the for-loop of a pass takes its
\* next frame (line 163); a pass whose loop is over returns, and
\* predict_fatigue calls the next pass or returns (lines 270-297).
AdvanceControl ==
    /\ InPass
    /\ IF pos < Len(frames_subset)
       THEN pos' = pos + 1 /\ UNCHANGED <<pc, i>>
       ELSE IF pc = "overall"
            THEN IF Len(frames_data) < MIN_GROUP_FRAMES
                 THEN pc' = "done" /\ UNCHANGED <<i, pos>>
                 ELSE pc' = "group" /\ i' = 0 /\ pos' = 0
            ELSE IF i + batch_size < Len(frames_data)
                 THEN i' = i + batch_size /\ pos' = 0 /\ UNCHANGED pc
                 ELSE pc' = "done" /\ UNCHANGED <<i, pos>>

\* predict_fatigue and the passes it calls are synchronous code with no
\* await: an invocation that has begun keeps taking its next step.  The
\* steps of a running invocation are the steps that advance its control.
SpecLive == Spec /\ WF_<<pc, i, pos>>(AdvanceControl)

-----------------------------------------------------------------------------
(* The specifications of the other parts.                                  *)

\* predict_fatigue is not called.
VideoIdle ==
    /\ frames_data = <<>>
    /\ pc = "call"
    /\ calls = 0
    /\ FACE_MESH = FaceMeshInit
    /\ frames_subset = <<>>
    /\ pos = 0
    /\ trend_analyzer = PassInit(FaceMeshInit).trend_analyzer
    /\ max_warning_level = 0
    /\ current_warning = 0
    /\ curr_closed_seq = 0
    /\ max_closed_seq = 0
    /\ total_closed_frames = 0
    /\ valid_frame_count = 0
    /\ current_energy = INITIAL_ENERGY
    /\ min_energy_recorded = INITIAL_MIN_ENERGY
    /\ overall_score = Rat(0, 1)
    /\ overall_level = 0
    /\ group_scores = <<>>
    /\ i = 0
    /\ result = None
    /\ observed = <<>>
    /\ visited = <<>>

\* get_redis_pool: the settings either hold a URL redis.from_url accepts or
\* one it rejects.
InitRedis ==
    /\ VideoIdle
    /\ _redis = None
    /\ REDIS_URL \in BOOLEAN
    /\ clients_created = 0
    /\ pool_calls = [t \in PoolCalls |-> [pc |-> "idle", result |-> None, raised |-> FALSE]]
    /\ DbIdle
    /\ RepoIdle
    /\ TrendIdle

NextRedis ==
    \/ \E t \in PoolCalls : SpawnPoolCall(t)
    \/ \E t \in PoolCalls : get_redis_pool(t)

SpecRedis == InitRedis /\ [][NextRedis]_vars

InitDb ==
    /\ VideoIdle
    /\ RedisIdle
    /\ DbIdle
    /\ RepoIdle
    /\ TrendIdle

NextDb ==
    \/ \E kind \in UseKinds : OpenSession(kind)
    \/ \E raised \in BOOLEAN : BodyEnds(raised)
    \/ \E raises \in BOOLEAN : Commit(raises)
    \/ Rollback
    \/ Finalize
    \/ Close
    \/ UseOver

SpecDb == InitDb /\ [][NextDb]_vars

\* The repository starts on a table with no row of the user or with one,
\* and with the key absent or holding what an earlier read cached.
InitRepo ==
    /\ VideoIdle
    /\ RedisIdle
    /\ DbIdle
    /\ TrendIdle
    /\ db_rows \in {<<>>, <<<<1, 70>>>>}
    /\ redis_kv \in {NoKey} \cup {[exists |-> TRUE, text |-> JsonDumps(data), ex |-> DEFAULT_TTL] :
                                     data \in QueryLatest(db_rows, DEFAULT_LIMIT) \ {<<>>}}
    /\ repo_calls = [c \in RepoCalls |-> NoCall]

NextRepo ==
    \/ \E c \in RepoCalls, heart_rate \in HeartRates : insert_heart_data(c, heart_rate)
    \/ \E c \in RepoCalls, raises \in BOOLEAN : insert_commit(c, raises)
    \/ \E c \in RepoCalls, raises \in BOOLEAN : insert_delete(c, raises)
    \/ \E c \in RepoCalls, user_id \in UserIds, limit \in Limits, ttl \in Ttls :
           get_latest_heart_data(c, user_id, limit, ttl)
    \/ \E c \in RepoCalls : get_cache(c)
    \/ \E c \in RepoCalls : get_execute(c)
    \/ \E c \in RepoCalls : get_set(c)

SpecRepo == InitRepo /\ [][NextRepo]_vars

\* An analyzer created with no argument, or with a window size, and given
\* one of the sample streams.
InitTrend ==
    /\ VideoIdle
    /\ RedisIdle
    /\ DbIdle
    /\ RepoIdle
    /\ ta_args \in {<<>>, <<5>>, <<CALIBRATION_FRAMES>>, <<TREND_WINDOW>>}
    /\ analyzer = NewTrendAnalyzer(ta_args)
    /\ ta_samples \in SampleStreams
    /\ ta_fed = 0
    /\ ta_level = 0

NextTrend == UpdateAnalyzer

SpecTrend == InitTrend /\ [][NextTrend]_vars

-----------------------------------------------------------------------------
(* What the claims speak of.                                               *)

\* The running pass has consumed its whole list and is about to return.
PassEnded == InPass /\ pos = Len(frames_subset)

\* What the running pass returns.
Returned == PassReturn(PassState)

\* The state of FACE_MESH after it has processed the decodable frames of a
\* list, in order.
RECURSIVE MeshAfter(_, _)
MeshAfter(mesh, frames) ==
    IF frames = <<>> \/ mesh # mesh THEN mesh
    ELSE MeshAfter(IF Decodable(Head(frames))
                   THEN FaceMeshProcess(mesh, Head(frames)).mesh
                   ELSE mesh,
                   Tail(frames))

\* The frames one invocation hands to FACE_MESH: the overall pass, then the
\* groups (the same frames once more).
FramesOfCall ==
    IF Len(frames_data) < MIN_GROUP_FRAMES THEN frames_data
    ELSE frames_data \o frames_data

RECURSIVE MeshAfterCalls(_)
MeshAfterCalls(n) ==
    IF n = 0 THEN FaceMeshInit ELSE MeshAfter(MeshAfterCalls(n - 1), FramesOfCall)

\* The state FACE_MESH was in when the running (or last) invocation began.
MeshAtCallStart == MeshAfterCalls(calls - 1)

\* The state FACE_MESH was in when the running pass began.
MeshAtPassStart ==
    IF pc = "overall" THEN MeshAtCallStart
    ELSE MeshAfter(MeshAtCallStart, frames_data \o SubSeq(frames_data, 1, i))

\* The samples (ear, mar) of the decodable frames of a list, in order, for a
\* FACE_MESH that starts in state mesh.
RECURSIVE SamplesFrom(_, _, _)
SamplesFrom(mesh, frames, done) ==
    IF frames = <<>> \/ mesh # mesh \/ done # done THEN done
    ELSE IF Decodable(Head(frames))
         THEN SamplesFrom(FaceMeshProcess(mesh, Head(frames)).mesh,
                          Tail(frames),
                          Append(done,
                                 [ear |-> calculate_ear_mar_on_frame(mesh, Head(frames)).ear,
                                  mar |-> calculate_ear_mar_on_frame(mesh, Head(frames)).mar]))
         ELSE SamplesFrom(mesh, Tail(frames), done)

Samples(mesh, frames) == SamplesFrom(mesh, frames, <<>>)

EyeClosed(sample) == sample.ear < EYE_AR_THRESH

TwoClosedInARow(samples) ==
    \E j \in 1..(Len(samples) - 1) : EyeClosed(samples[j]) /\ EyeClosed(samples[j + 1])

\* The samples of the running pass.
PassSamples == Samples(MeshAtPassStart, frames_subset)

\* ceil(n / batch_size)
GroupCount(n) == (n + batch_size - 1) \div batch_size

-----------------------------------------------------------------------------
(* C1. A pass in which at least one frame decodes returns a score within   *)
(* [0.05, 0.99] and a warning level in {0, 1, 2}.                          *)
C1_ScoreAndLevelInRange ==
    (PassEnded /\ valid_frame_count > 0) =>
        /\ RatLE(Rat(5, 100), Returned.score)
        /\ RatLE(Returned.score, Rat(99, 100))
        /\ Returned.level \in {0, 1, 2}

\* A pass with decodable frames ends with a raw score above the cap.
C1_Witness ==
    /\ PassEnded
    /\ valid_frame_count > 0
    /\ RatLT(Rat(99, 100), PerclosScore(Rat(total_closed_frames, valid_frame_count)))
    /\ Returned.score = Rat(99, 100)

(* C2. A pass with two closed-eye valid frames in a row returns level 2,   *)
(* whatever the trend analyzer returned and whatever the PERCLOS is.       *)
C2_TwoClosedForceLevel2 ==
    (PassEnded /\ TwoClosedInARow(PassSamples)) => Returned.level = 2

\* Two closed frames in a row, in a pass whose trend analyzer never left 0
\* and whose PERCLOS is in the lowest piece of the mapping.
C2_Witness ==
    /\ PassEnded
    /\ TwoClosedInARow(PassSamples)
    /\ max_warning_level = 0
    /\ RatLT(Rat(total_closed_frames, valid_frame_count), Rat(15, 100))
    /\ Returned.level = 2

(* C3. predict_fatigue on an empty list returns ([], 0.0, 0) and runs no   *)
(* pass: no pass is entered, no pass state and no FACE_MESH state changes. *)
C3_EmptyListDefault ==
    frames_data = <<>> =>
        /\ pc \in {"call", "done"}
        /\ frames_subset = <<>>
        /\ pos = 0
        /\ PassState = PassInit(FaceMeshInit)
        /\ (pc = "done" => result = <<<<>>, Rat(0, 1), 0>>)

C3_Witness ==
    frames_data = <<>> /\ pc = "done" /\ calls = 1 /\ result = <<<<>>, Rat(0, 1), 0>>

(* C4. For a non-empty list of fewer than 30 frames predict_fatigue        *)
(* returns no group scores, and the overall score and level are those of   *)
(* one pass over all the frames.                                           *)
C4_ShortListNoGroups ==
    (pc = "done" /\ frames_data # <<>> /\ Len(frames_data) < 30) =>
        LET one == calculate_fatigue_metrics(frames_data, MeshAtCallStart) IN
        /\ result[1] = <<>>
        /\ result[2] = one.score
        /\ result[3] = one.level

\* 29 frames, and an overall result that is not the default.
C4_Witness ==
    /\ pc = "done"
    /\ Len(frames_data) = 29
    /\ result[1] = <<>>
    /\ result[2] # Rat(0, 1)
    /\ result[3] = 2

(* C5. For a list of n >= 30 frames predict_fatigue returns ceil(n/30)     *)
(* group scores in chunk order, the g-th being the score a pass returns on *)
(* the g-th chunk of 30 frames alone (the last chunk may be shorter).      *)
C5_GroupScoresOfChunksAlone ==
    (pc = "done" /\ Len(frames_data) >= 30) =>
        /\ Len(result[1]) = GroupCount(Len(frames_data))
        /\ \A g \in 1..Len(result[1]) :
               result[1][g] =
                   calculate_fatigue_metrics(
                       SubSeq(frames_data, 30 * (g - 1) + 1,
                              Min(30 * g, Len(frames_data))),
                       FaceMeshInit).score

\* What does hold of the group scores: there are ceil(n/30) of them, and the
\* g-th is the score of a pass over the g-th chunk that starts with FACE_MESH
\* in the state the passes before it left it in.
GroupScoresFollowChunks ==
    (pc = "done" /\ Len(frames_data) >= 30) =>
        /\ Len(result[1]) = GroupCount(Len(frames_data))
        /\ \A g \in 1..Len(result[1]) :
               result[1][g] =
                   calculate_fatigue_metrics(
                       SubSeq(frames_data, 30 * (g - 1) + 1,
                              Min(30 * g, Len(frames_data))),
                       MeshAfter(MeshAtCallStart,
                                 frames_data \o SubSeq(frames_data, 1, 30 * (g - 1)))).score

(* C6. A frame that fails to decode changes no pass state and the pass     *)
(* goes on with the next frame; the pass ends in the state, and so with    *)
(* the result, of the same pass on the list without its undecodable frames.*)
C6_SkipChangesNothing ==
    [][(InPass /\ pos < Len(frames_subset) /\ ~Decodable(frames_subset[pos + 1]))
          => /\ UNCHANGED <<passvars, FACE_MESH, pc, frames_subset>>
             /\ pos' = pos + 1]_vars

C6_AsWithoutUndecodable ==
    PassEnded =>
        PassState = RunFrames(PassInit(MeshAtPassStart),
                              SelectSeq(frames_subset, Decodable))

C6_UndecodableFramesSkipped == []C6_AsWithoutUndecodable /\ C6_SkipChangesNothing

\* A pass ends that met undecodable frames between decodable ones, after
\* the baseline was set.
C6_Witness ==
    /\ PassEnded
    /\ valid_frame_count > CALIBRATION_FRAMES
    /\ \E j \in 2..(Len(frames_subset) - 1) :
           /\ ~Decodable(frames_subset[j])
           /\ Decodable(frames_subset[j - 1])
           /\ Decodable(frames_subset[Len(frames_subset)])

(* C7. A pass over a non-empty list in which no frame decodes returns      *)
(* exactly (0.0, 0), and it does return.                                   *)
C7_NoValidFrameDefault ==
    /\ (PassEnded /\ \A j \in 1..Len(frames_subset) : ~Decodable(frames_subset[j]))
           => valid_frame_count = 0
    /\ (PassEnded /\ valid_frame_count = 0)
           => /\ Returned = [score |-> Rat(0, 1), level |-> 0]
              /\ ENABLED (OverallReturnsShort \/ OverallReturnsGroups
                            \/ GroupReturnsNext \/ GroupReturnsLast)

\* A pass over 30 frames, none of which decoded, has ended.
C7_Witness ==
    /\ PassEnded
    /\ Len(frames_subset) = 30
    /\ valid_frame_count = 0

(* C8. Every pass starts from freshly initialised state, and its result    *)
(* depends on its own frame sequence only: it is the result of a pass over *)
(* these frames run on its own, whichever passes and invocations came      *)
(* before it.                                                              *)
C8_PassDependsOnOwnFramesOnly ==
    /\ (InPass /\ pos = 0) =>
           [PassState EXCEPT !.FACE_MESH = FaceMeshInit] = PassInit(FaceMeshInit)
    /\ PassEnded =>
           LET alone == calculate_fatigue_metrics(frames_subset, FaceMeshInit) IN
           /\ Returned.score = alone.score
           /\ Returned.level = alone.level

\* What does hold: the locals of every pass start fresh; only FACE_MESH is
\* carried over from pass to pass and from invocation to invocation.
PassLocalsStartFresh ==
    (InPass /\ pos = 0) => PassState = PassInit(FACE_MESH)

(* C9. For a fixed number n of valid frames the PERCLOS score does not     *)
(* decrease as the number c of closed-eye frames grows from 0 to n.        *)
C9_PerclosScoreMonotone ==
    (PassEnded /\ valid_frame_count > 0) =>
        \A c \in 0..(valid_frame_count - 1) :
            RatLE(PerclosScore(Rat(c, valid_frame_count)),
                  PerclosScore(Rat(c + 1, valid_frame_count)))

\* A pass ends whose PERCLOS is in the lowest piece and, with one more closed
\* frame, would be in the middle piece.
C9_Witness ==
    /\ PassEnded
    /\ valid_frame_count > 0
    /\ RatLT(Rat(total_closed_frames, valid_frame_count), Rat(15, 100))
    /\ RatLE(Rat(15, 100), Rat(total_closed_frames + 1, valid_frame_count))
    /\ RatLT(Rat(total_closed_frames + 1, valid_frame_count), Rat(3, 10))

(* C10. The PERCLOS-to-score mapping is continuous at both breakpoints:    *)
(* at 0.15 the lower and the middle piece agree, at 0.30 the middle and    *)
(* the upper piece agree.                                                  *)
C10_ContinuousAtBothBreakpoints ==
    (PassEnded /\ valid_frame_count > 0) =>
        LET perclos == Rat(total_closed_frames, valid_frame_count) IN
        /\ perclos = Rat(15, 100) => PerclosLow(perclos) = PerclosMid(perclos)
        /\ perclos = Rat(3, 10) => PerclosMid(perclos) = PerclosHigh(perclos)

(* C10, amended.  The mapping is continuous at 0.30, where the middle and  *)
(* the upper piece both give 0.8; at 0.15 it jumps from 0.3 (the lower     *)
(* piece) to 0.4 (the middle piece, which is the one that applies).        *)
C10_ContinuousAtUpperBreakpointOnly ==
    (PassEnded /\ valid_frame_count > 0) =>
        LET perclos == Rat(total_closed_frames, valid_frame_count) IN
        /\ perclos = Rat(15, 100) =>
               /\ PerclosLow(perclos) = Rat(3, 10)
               /\ PerclosMid(perclos) = Rat(4, 10)
               /\ PerclosScore(perclos) = Rat(4, 10)
        /\ perclos = Rat(3, 10) =>
               /\ PerclosMid(perclos) = Rat(8, 10)
               /\ PerclosHigh(perclos) = Rat(8, 10)
               /\ PerclosScore(perclos) = Rat(8, 10)

\* A pass ends with PERCLOS exactly 0.15.
C10_Witness ==
    /\ PassEnded
    /\ valid_frame_count > 0
    /\ Rat(total_closed_frames, valid_frame_count) = Rat(15, 100)

(* C11. A frame that decodes but shows no face to the detector gives the   *)
(* sample (0, 0) and is scored as a valid, closed-eye, non-yawning frame:  *)
(* valid_frame_count, total_closed_frames and curr_closed_seq go up by     *)
(* one, the trend analyzer is fed ear 0 and yawn flag 0, and the energy    *)
(* takes the eye-closed penalty.                                           *)
NoFaceNext ==
    /\ InPass
    /\ pos < Len(frames_subset)
    /\ Decodable(frames_subset[pos + 1])
    /\ ~FaceMeshProcess(FACE_MESH, frames_subset[pos + 1]).found

C11_NoFaceFrameIsClosedSample ==
    [][NoFaceNext =>
          /\ calculate_ear_mar_on_frame(FACE_MESH, frames_subset[pos + 1]).ear = 0
          /\ calculate_ear_mar_on_frame(FACE_MESH, frames_subset[pos + 1]).mar = 0
          /\ pos' = pos + 1
          /\ valid_frame_count' = valid_frame_count + 1
          /\ total_closed_frames' = total_closed_frames + 1
          /\ curr_closed_seq' = curr_closed_seq + 1
          /\ trend_analyzer'.ear_history =
                 DequeAppend(trend_analyzer.ear_history, 0, TREND_WINDOW)
          /\ trend_analyzer'.yawn_history =
                 DequeAppend(trend_analyzer.yawn_history, 0, TREND_WINDOW)
          /\ current_energy' =
                 Max(0, current_energy - PENALTY_EYE_CLOSED
                          - (IF curr_closed_seq >= 1 THEN PENALTY_CONSECUTIVE ELSE 0))
      ]_vars

\* A no-face frame has just been scored, as the second or later frame of a
\* closed run, in a pass whose baseline is set.
C11_Witness ==
    /\ InPass
    /\ pos > 0
    /\ frames_subset[pos] = "noface"
    /\ curr_closed_seq >= 2
    /\ total_closed_frames >= 2
    /\ trend_analyzer.baseline_ear # None
    /\ trend_analyzer.ear_history[Len(trend_analyzer.ear_history)] = 0

(* C12. For 40 decodable frames that all have ear 0.4 and mar 0.1          *)
(* predict_fatigue returns overall score 0.05, overall level 0 and exactly *)
(* two group scores, both 0.05.                                            *)
C12_WideOpenScenario ==
    (pc = "done" /\ frames_data = WideOpen40) =>
        result = <<<<Rat(5, 100), Rat(5, 100)>>, Rat(5, 100), 0>>

C12_Witness ==
    /\ pc = "done"
    /\ frames_data = WideOpen40
    /\ Len(result[1]) = 2
    /\ result[2] = Rat(5, 100)

(* C13. For 30 decodable frames made of 5 closed-eye frames (ear 0.05)     *)
(* followed by 5 open-eye frames, three times over, the overall pass       *)
(* returns warning level 2.                                                *)
C13_ClosedRunsScenario ==
    /\ (pc = "overall" /\ PassEnded /\ frames_data = ClosedOpen30) => Returned.level = 2
    /\ (pc = "done" /\ frames_data = ClosedOpen30) => result[3] = 2

\* The overall pass over the scenario's frames ends: 15 closed frames, and
\* no level above 1 from the trend analyzer.
C13_Witness ==
    /\ pc = "overall"
    /\ PassEnded
    /\ frames_data = ClosedOpen30
    /\ total_closed_frames = 15
    /\ max_warning_level = 1
    /\ Returned.level = 2

(* C14. A trend analyzer with window 20 fed 10 samples with ear 0.30 and   *)
(* then 20 samples with ear 0.10, none a yawn, returns level 2 from some   *)
(* update because the window mean is below half the baseline; the         *)
(* maximum trend level of the pass is 2 without the closed-run override.   *)
DecayRatio(ta) == RatDiv(Mean(ta.ear_history), RatAdd(ta.baseline_ear, Rat(1, 1)))

C14_TrendHeavyScenario ==
    (PassEnded /\ frames_subset = OpenThenClosed30) =>
        /\ trend_analyzer.window_size = 20
        /\ trend_analyzer.baseline_ear = Rat(300000, 1)
        /\ SumSeq(trend_analyzer.yawn_history) = 0
        /\ RatLT(DecayRatio(trend_analyzer), Rat(5, 10))
        /\ current_warning = 2
        /\ max_warning_level = 2

C14_Witness ==
    /\ PassEnded
    /\ frames_subset = OpenThenClosed30
    /\ valid_frame_count = 30
    /\ max_warning_level = 2

(* C20. Across any number of get_redis_pool calls, in whatever order the   *)
(* event loop runs them, the client is built at most once and every call   *)
(* that returns returns that one client; a call made when _redis is set    *)
(* builds nothing and leaves _redis as it is.                              *)
C20_OneClient ==
    /\ clients_created <= 1
    /\ (clients_created = 1) = (_redis # None)
    /\ \A t \in PoolCalls :
           (pool_calls[t].pc = "done" /\ ~pool_calls[t].raised) =>
               /\ _redis # None
               /\ pool_calls[t].result = _redis

C20_ExistingClientKept ==
    [][_redis # None => (_redis' = _redis /\ clients_created' = clients_created)]_vars

C20_RedisClientCreatedOnce == []C20_OneClient /\ C20_ExistingClientKept

\* Every call has returned, the first having built the client and the
\* others having found it.
C20_Witness ==
    /\ \A t \in PoolCalls : pool_calls[t].pc = "done" /\ pool_calls[t].result = <<1>>
    /\ _redis = <<1>>
    /\ clients_created = 1

(* C19. For every use of get_db: the session is closed exactly once, at    *)
(* the end; commit is attempted if and only if the consumer's body raised  *)
(* nothing; rollback is called if and only if the body or the commit       *)
(* raised; and in both failure cases the caller gets the exception after   *)
(* the rollback and the close.                                             *)
UseContract(u) ==
    /\ u.close = 1
    /\ (u.commit = 1) = (u.body = "ok")
    /\ u.commit <= 1
    /\ (u.rollback = 1) = (u.body = "raised" \/ u.commit_raised)
    /\ u.rollback <= 1
    /\ (u.body = "raised" \/ u.commit_raised) =>
           (u.caller = "raised" /\ u.closed_at_caller)

C19_GetDbContract ==
    /\ db_use.pc = "closed" => UseContract(db_use)
    /\ db_use.close <= 1

\* What does hold: the contract holds of the uses that drive the generator
\* themselves, and every use closes its session exactly once.
DriverUsesKeepContract ==
    /\ db_use.close <= 1
    /\ db_use.pc = "closed" =>
           /\ db_use.close = 1
           /\ db_use.kind = "driver" => UseContract(db_use)

-----------------------------------------------------------------------------
(* CacheAsideRepository: heart rate                                        *)

\* The insert_heart_data calls and the get_latest_heart_data calls that
\* have begun.
InsertCalls == {c \in RepoCalls : repo_calls[c].op = "insert"}
GetCalls == {c \in RepoCalls : repo_calls[c].op = "get"}

\* What holds of an insert_heart_data call at every moment.
InsertOrder(call) ==
    /\ call.add = Len(call.heart_rate)
    /\ call.commit <= 1
    /\ call.pc \in {"delete", "done"} => call.commit = 1
    /\ call.delete <= 1
    /\ call.delete = 1 => call.commit = 1 /\ ~call.commit_raised
    /\ call.pc = "done" /\ ~call.commit_raised => call.delete = 1
    /\ call.commit_raised =>
           call.pc = "done" /\ call.outcome = "raised" /\ call.delete = 0

\* The step in which the commit of call c ends.
CommitStep(c) == repo_calls[c].op = "insert" /\ repo_calls'[c].commit = repo_calls[c].commit + 1

\* A commit that succeeds appends one row per entry of the request, in
\* order; one that raises appends none; neither touches the cache key.
CommitWritesEntries ==
    \A c \in RepoCalls :
        CommitStep(c) =>
            /\ db_rows' = IF repo_calls'[c].commit_raised THEN db_rows
                          ELSE db_rows \o repo_calls[c].heart_rate
            /\ redis_kv' = redis_kv

\* The rows change in commit steps only, and the key is removed only by the
\* delete of a call whose commit has succeeded.
OnlyCommittedCallsDelete ==
    /\ db_rows' # db_rows => \E c \in RepoCalls : CommitStep(c)
    /\ redis_kv.exists /\ ~redis_kv'.exists =>
           \E c \in RepoCalls :
               /\ repo_calls[c].op = "insert"
               /\ repo_calls[c].commit = 1 /\ ~repo_calls[c].commit_raised
               /\ repo_calls'[c].delete = repo_calls[c].delete + 1

\* C16: insert_heart_data adds one record per heart-rate entry (none for an
\* empty list), commits once, and deletes the cache key exactly once and
\* only after the commit has succeeded; if the commit raises, the exception
\* reaches the caller and the key is not deleted.
C16_InsertCommitsThenDeletes ==
    /\ [](\A c \in InsertCalls : InsertOrder(repo_calls[c]))
    /\ [][CommitWritesEntries /\ OnlyCommittedCallsDelete]_vars

\* An insert of two entries has returned after its delete removed a key that
\* existed, and another insert ended in the exception of its commit.
C16_Witness ==
    \E c, d \in InsertCalls :
        /\ repo_calls[c].pc = "done" /\ repo_calls[c].outcome = "returned"
        /\ repo_calls[c].add = 2 /\ repo_calls[c].delete = 1
        /\ ~repo_calls[c].delete_raised
        /\ Len(db_rows) = 3
        /\ repo_calls[d].commit_raised /\ repo_calls[d].add = 1

\* C17: when redis.delete raises in insert_heart_data the exception is
\* swallowed: the call returns normally, every record was added, the commit
\* was performed, and the delete was attempted exactly once.
C17_DeleteFailureSwallowed ==
    \A c \in InsertCalls :
        repo_calls[c].delete_raised =>
            /\ repo_calls[c].pc = "done"
            /\ repo_calls[c].outcome = "returned"
            /\ repo_calls[c].add = Len(repo_calls[c].heart_rate)
            /\ repo_calls[c].commit = 1 /\ ~repo_calls[c].commit_raised
            /\ repo_calls[c].session = <<>>
            /\ repo_calls[c].delete = 1

\* The delete of an insert of two entries has raised, and the stale key is
\* still there.
C17_Witness ==
    \E c \in InsertCalls :
        /\ repo_calls[c].delete_raised
        /\ repo_calls[c].add = 2
        /\ redis_kv.exists

\* What holds of a get_latest_heart_data call at every moment.
GetOrder(call) ==
    /\ call.get <= 1 /\ call.execute <= 1 /\ call.set <= 1
    /\ call.execute = 1 => call.get = 1 /\ ~call.hit
    /\ call.set = 1 => call.execute = 1
    /\ call.hit =>
           /\ call.pc = "done" /\ call.outcome = "returned"
           /\ call.execute = 0 /\ call.set = 0
    /\ call.pc = "done" /\ call.get = 1 /\ ~call.hit =>
           /\ call.execute = 1
           /\ call.outcome = "returned"
           /\ call.returned = call.data
           /\ call.set = 1 <=> call.data # <<>>

\* The steps of get_latest_heart_data: a hit returns the list whose text is
\* under the key, and changes neither rows nor key; the query gives the
\* latest values of the rows; the cache write stores the text of the values
\* with the ttl of the call.
GetSteps ==
    \A c \in RepoCalls :
        /\ repo_calls[c].op = "get" /\ ~repo_calls[c].hit /\ repo_calls'[c].hit =>
               /\ redis_kv.exists
               /\ JsonDumps(repo_calls'[c].returned) = redis_kv.text
               /\ UNCHANGED <<db_rows, redis_kv>>
        /\ repo_calls[c].op = "get" /\ repo_calls'[c].execute = repo_calls[c].execute + 1 =>
               /\ repo_calls'[c].data \in QueryLatest(db_rows, repo_calls[c].limit)
               /\ UNCHANGED <<db_rows, redis_kv>>
        /\ repo_calls[c].op = "get" /\ repo_calls'[c].set = repo_calls[c].set + 1 =>
               /\ redis_kv'.exists
               /\ redis_kv'.ex = repo_calls[c].ttl
               /\ JsonLoads(redis_kv'.text) = repo_calls[c].data

\* C18: get_latest_heart_data queries the database iff the cache lookup
\* misses: a hit returns the cached list with no query and no cache write;
\* a miss queries once, returns the values, and writes them to the cache
\* with the given ttl iff the list is not empty.
C18_QueryIffCacheMiss ==
    /\ [](\A c \in GetCalls : GetOrder(repo_calls[c]))
    /\ [][GetSteps]_vars

\* One call missed, read the value of the row and cached it with ttl 60; the
\* other call hit and returned the same list.
C18_Witness ==
    \E c, d \in GetCalls :
        /\ repo_calls[c].set = 1 /\ repo_calls[c].pc = "done"
        /\ repo_calls[c].returned = <<70>> /\ repo_calls[c].ttl = 60
        /\ redis_kv.ex = 60
        /\ repo_calls[d].hit
        /\ repo_calls[d].returned = repo_calls[c].returned

-----------------------------------------------------------------------------
(* FatigueTrendAnalyzer: the default window                                *)

\* C15: an analyzer created without an explicit window size keeps at most
\* 20 EAR values and at most 20 yawn flags.
C15_DefaultWindowIs20 ==
    ta_args = <<>> => Len(analyzer.ear_history) <= 20 /\ Len(analyzer.yawn_history) <= 20

\* What the code keeps: at most window_size values of each, where
\* window_size is the argument, or DEFAULT_WINDOW_SIZE without one.
HistoriesWithinWindow ==
    /\ analyzer.window_size = IF ta_args = <<>> THEN DEFAULT_WINDOW_SIZE ELSE ta_args[1]
    /\ Len(analyzer.ear_history) = Min(ta_fed, analyzer.window_size)
    /\ Len(analyzer.yawn_history) = Min(ta_fed, analyzer.window_size)

-----------------------------------------------------------------------------
(* FatigueTrendAnalyzer.update                                             *)

\* The EAR values and the MAR values of the first n samples of the stream.
FirstEars(n) == [j \in 1..n |-> ta_samples[j][1]]
FirstMars(n) == [j \in 1..n |-> ta_samples[j][2]]

\* The last n elements of a sequence.
LastOf(seq, n) == SubSeq(seq, Len(seq) - n + 1, Len(seq))

\* An update made while the baseline is unset returns 0.
UncalibratedUpdateReturns0 ==
    ta_fed' = ta_fed + 1 /\ analyzer.baseline_ear = None => ta_level' = 0

\* C21: every update made while the baseline is unset returns level 0, the
\* one that sets the baseline included; so the first 10 updates of an
\* analyzer return 0 whatever the EAR and MAR values are.
C21_UncalibratedUpdatesReturn0 ==
    /\ [][UncalibratedUpdateReturns0]_vars
    /\ [](ta_fed <= 10 => ta_level = 0)

\* The 10th update has set the baseline and returned 0, with yawns in the
\* window and a mean that is not the mean of open eyes.
C21_Witness ==
    /\ ta_fed = 10
    /\ analyzer.baseline_ear # None
    /\ SumSeq(analyzer.yawn_history) >= 2
    /\ ta_level = 0

\* C22: with a window of at least 10, baseline_ear is set exactly once, on
\* the 10th update, to the mean of the first 10 EAR values, and no later
\* update changes or unsets it.
C22_BaselineSetOnceOnTenthUpdate ==
    analyzer.window_size >= 10 =>
        /\ ta_fed < 10 => analyzer.baseline_ear = None
        /\ ta_fed >= 10 => analyzer.baseline_ear = Mean(FirstEars(10))

\* The window has moved past the first 10 samples: its mean is no longer the
\* baseline, which is still the mean of the first 10.
C22_Witness ==
    /\ analyzer.window_size >= 10
    /\ ta_fed > analyzer.window_size + 10
    /\ analyzer.baseline_ear = Mean(FirstEars(10))
    /\ Mean(analyzer.ear_history) # analyzer.baseline_ear

\* The flags of the update that has just returned, on the analyzer it left.
Dropping == RatLT(DecayRatio(analyzer), Rat(85, 100))
DroppingHeavy == RatLT(DecayRatio(analyzer), Rat(5, 10))
FreqYawning == SumSeq(analyzer.yawn_history) >= 2

\* The baseline was set before the last update.
CalibratedUpdate ==
    /\ analyzer.baseline_ear # None
    /\ ta_fed > 10

\* C23: once calibrated, update returns 2 iff decay_ratio < 0.5 or
\* (decay_ratio < 0.85 and the yawn window holds at least 2 flags), 1 iff
\* decay_ratio >= 0.5 and exactly one of the two holds, and 0 otherwise; no
\* rule of the derivation lowers the level an earlier rule set.
C23_LevelFromDecayAndYawns ==
    CalibratedUpdate =>
        /\ ta_level = 2 <=> DroppingHeavy \/ (Dropping /\ FreqYawning)
        /\ ta_level = 1 <=> ~DroppingHeavy /\ (Dropping # FreqYawning)
        /\ ta_level = 0 <=> ~DroppingHeavy /\ ~Dropping /\ ~FreqYawning
        /\ LET trace == WarningLevelTrace(Dropping, FreqYawning, DroppingHeavy) IN
           /\ trace[4] = ta_level
           /\ \A k \in 1..3 : trace[k] <= trace[k + 1]

\* An update returned 2 for a mild drop together with yawns, with no heavy
\* drop.
C23_Witness ==
    /\ CalibratedUpdate
    /\ Dropping /\ FreqYawning /\ ~DroppingHeavy
    /\ ta_level = 2

\* C24: ear_history and yawn_history have the same length, min(number of
\* updates, window_size); they hold the most recent samples in arrival
\* order, the oldest dropped when full; the yawn flag of a sample is 1
\* exactly when its mar > 0.60.
C24_WindowsHoldMostRecentSamples ==
    LET n == Min(ta_fed, analyzer.window_size) IN
    /\ Len(analyzer.ear_history) = n
    /\ Len(analyzer.yawn_history) = n
    /\ analyzer.ear_history = LastOf(FirstEars(ta_fed), n)
    /\ analyzer.yawn_history =
           [j \in 1..n |-> IF LastOf(FirstMars(ta_fed), n)[j] > 600000 THEN 1 ELSE 0]

\* The window is full and has dropped samples; it holds a sample with mar
\* exactly 0.60, flagged 0, and the dropped samples differ from the kept.
C24_Witness ==
    /\ ta_fed > analyzer.window_size
    /\ \E j \in 1..Len(analyzer.ear_history) :
           /\ LastOf(FirstMars(ta_fed), Len(analyzer.ear_history))[j] = 600000
           /\ analyzer.yawn_history[j] = 0
    /\ FirstEars(analyzer.window_size) # analyzer.ear_history

-----------------------------------------------------------------------------
(* _calculate_fatigue_metrics: the loop body                               *)

\* The step is the scoring of a valid frame.
ValidFrameStep == valid_frame_count' = valid_frame_count + 1

\* The eye of the k-th valid frame of the running pass was closed.
ClosedAt(k) == observed[k].ear < 180000

\* C25: on each valid frame the energy changes, before clamping, by exactly
\* one of: -20 (eye closed, first frame of a closed run), -30 (eye closed,
\* the run including this frame has length >= 2), -10 (eye open, yawn), +5
\* otherwise; a frame both closed-eye and yawning takes the closed-eye
\* penalty only.
C25_EnergyChangePerFrame ==
    [][ValidFrameStep =>
           LET m == observed'[Len(observed')]
               closed == m.ear < 180000
               yawn == m.mar > 600000
               first_of_run == observed = <<>> \/ ~ClosedAt(Len(observed))
               delta == IF closed THEN (IF first_of_run THEN -20 ELSE -30)
                        ELSE IF yawn THEN -10 ELSE 5
           IN  current_energy' = Max(0, Min(100, current_energy + delta))]_vars

\* The first valid frame of a pass had a closed eye and a yawn, and took 20.
C25_Witness ==
    /\ Len(observed) = 1
    /\ ClosedAt(1) /\ observed[1].mar > 600000
    /\ current_energy = 70

\* C26: after every valid frame the current energy lies in [0, 100]; the
\* recorded minimum is <= the current energy, equals the smallest current
\* energy observed after any frame of the pass so far, and never increases
\* during a pass.
C26_EnergyBoundsAndMinimum ==
    /\ [](observed # <<>> =>
             /\ current_energy = observed[Len(observed)].energy
             /\ 0 <= current_energy /\ current_energy <= 100
             /\ min_energy_recorded <= current_energy
             /\ \E k \in 1..Len(observed) : min_energy_recorded = observed[k].energy
             /\ \A k \in 1..Len(observed) : min_energy_recorded <= observed[k].energy)
    /\ [][pos' = pos + 1 => min_energy_recorded' <= min_energy_recorded]_vars

\* The energy was clamped at 0 and has recovered since: the minimum stays 0
\* below the current energy.
C26_Witness ==
    /\ Len(observed) >= 3
    /\ min_energy_recorded = 0
    /\ current_energy = 10
    /\ observed[Len(observed) - 2].energy = 0

\* Some n consecutive valid frames of the pass had closed eyes.
HasClosedRun(n) ==
    \E a \in 1..(Len(observed) - n + 1) : \A k \in a..(a + n - 1) : ClosedAt(k)

\* n is the length of the longest run of closed valid frames of the pass.
IsLongestClosedRun(n) == HasClosedRun(n) /\ ~HasClosedRun(n + 1)

\* C27: at the end of a pass total_closed_frames is the number of valid
\* frames with EAR < 0.18 and max_closed_seq the length of the longest run
\* of consecutive closed valid frames, a run still open at the last frame
\* included; throughout the pass
\* curr_closed_seq <= total_closed_frames <= valid_frame_count.
C27_ClosedCountsAndLongestRun ==
    /\ curr_closed_seq <= total_closed_frames
    /\ total_closed_frames <= valid_frame_count
    /\ valid_frame_count = Len(observed)
    /\ pos = Len(frames_subset) =>
           /\ total_closed_frames = Cardinality({k \in 1..Len(observed) : ClosedAt(k)})
           /\ IsLongestClosedRun(Max(max_closed_seq, curr_closed_seq))
    /\ pc = "done" => IsLongestClosedRun(max_closed_seq)

\* predict_fatigue has returned from a last pass whose longest closed run,
\* of 5 frames, was still open at its last frame, after earlier closed runs.
C27_Witness ==
    /\ pc = "done"
    /\ curr_closed_seq = 5 /\ max_closed_seq = 5
    /\ total_closed_frames > 5

-----------------------------------------------------------------------------
(* _calculate_fatigue_metrics: the result of a pass                        *)

\* The loop of the running pass is over; the next step is its return.
PassIsOver == InPass /\ pos = Len(frames_subset)

\* min(0.99, max(0.05, max(energy_score, perclos_score))) on the counters
\* of the running pass.
FusedScore ==
    LET energy_score == Rat(100 - min_energy_recorded, 100)
        perclos_score == PerclosScore(Rat(total_closed_frames, valid_frame_count))
    IN  RatMin(Rat(99, 100), RatMax(Rat(5, 100), RatMax(energy_score, perclos_score)))

\* C28: when valid_frame_count > 0 the score a pass returns is
\* min(0.99, max(0.05, max(energy_score, perclos_score))), with
\* energy_score = (100 - recorded minimum energy) / 100 and perclos_score
\* the piecewise mapping of total_closed_frames / valid_frame_count.
C28_ScoreIsClampedMaximum ==
    [][PassIsOver /\ valid_frame_count > 0 =>
           IF pc = "overall" THEN overall_score' = FusedScore
           ELSE group_scores' = Append(group_scores, FusedScore)]_vars

\* A short list has been scored: the PERCLOS score is above the energy score
\* and above 0.99, and the overall score returned is 0.99.
C28_Witness ==
    /\ pc = "done"
    /\ Len(frames_data) < 30
    /\ valid_frame_count > 0
    /\ RatLT(Rat(100 - min_energy_recorded, 100), Rat(99, 100))
    /\ RatLT(Rat(99, 100), PerclosScore(Rat(total_closed_frames, valid_frame_count)))
    /\ result[2] = Rat(99, 100)

\* C29: the final warning level of a pass with at least one valid frame is
\* 2 when max_closed_seq >= 2 and otherwise the maximum level any update of
\* the analyzer returned during the pass; the analyzer is updated exactly
\* once per valid frame, in frame order.
C29_FinalLevelFromRunOrTrend ==
    [][/\ pos' = pos + 1 =>
              IF ValidFrameStep
              THEN LET m == observed'[Len(observed')]
                       r == TrendUpdate(trend_analyzer, m.ear, m.mar)
                   IN  /\ trend_analyzer' = r.ta
                       /\ m.level = r.level
                       /\ max_warning_level' = Max(max_warning_level, r.level)
              ELSE UNCHANGED <<trend_analyzer, max_warning_level, observed>>
       /\ PassIsOver /\ pc = "overall" /\ valid_frame_count > 0 =>
              overall_level' =
                  IF Max(max_closed_seq, curr_closed_seq) >= 2 THEN 2
                  ELSE CHOOSE l \in {observed[k].level : k \in 1..Len(observed)} :
                           \A k \in 1..Len(observed) : observed[k].level <= l]_vars

\* A short list returned level 1: the analyzer returned 1 for some frame and
\* 0 for the last one, and no two closed frames followed each other.
C29_Witness ==
    /\ pc = "done"
    /\ Len(frames_data) < 30
    /\ result[3] = 1
    /\ current_warning = 0
    /\ max_closed_seq < 2
    /\ \E k \in 1..Len(observed) : observed[k].level = 1

-----------------------------------------------------------------------------
(* predict_fatigue: termination                                            *)

\* The order in which an invocation takes the frames of frames_data: all of
\* them once in the overall pass and, with at least 30 frames, all of them
\* once more, group by group.
VisitOrder ==
    LET n == Len(frames_data)
        once == [k \in 1..n |-> k]
    IN  IF n < 30 THEN once ELSE once \o once

\* C30: predict_fatigue terminates on every finite frame list and returns a
\* result; the overall pass visits each frame exactly once and, when the
\* list has at least 30 frames, each frame is visited exactly once more, in
\* exactly one group pass; no retry, suspension or early abort in a pass.
C30_PredictFatigueTerminates ==
    /\ [](/\ Len(visited) <= Len(VisitOrder)
          /\ visited = SubSeq(VisitOrder, 1, Len(visited))
          /\ pc = "done" => visited = VisitOrder /\ result # None
          /\ pc = "overall" => Len(visited) = pos
          /\ pc = "group" => Len(visited) = Len(frames_data) + i + pos /\ i % 30 = 0)
    /\ [][InPass => AdvanceControl]_vars
    /\ InPass ~> (pc = "done" /\ result # None)

\* An invocation on 61 frames has returned three group scores after taking
\* every frame twice.
C30_Witness ==
    /\ pc = "done"
    /\ Len(frames_data) = 61
    /\ Len(visited) = 122
    /\ Len(result[1]) = 3

-----------------------------------------------------------------------------
(* _calculate_fatigue_metrics: consequences for the score and the level    *)

\* The k-th valid frame of the running pass showed a yawn.
YawnAt(k) == observed[k].mar > 600000

\* The score of the pass that ended last in an invocation that has returned.
LastPassScore ==
    IF Len(frames_data) < 30 THEN result[2] ELSE result[1][Len(result[1])]

\* C31: after any pass with at least one valid frame the recorded minimum
\* energy is at most 95, so energy_score >= 0.05 and raw_score >= 0.05: the
\* lower clamp to 0.05 never changes the score, and 0.05 is returned exactly
\* when the pass has no closed-eye frame and no yawn frame.
C31_LowerClampNeverActs ==
    /\ valid_frame_count > 0 => min_energy_recorded <= 95
    /\ PassIsOver /\ valid_frame_count > 0 =>
           LET energy_score == Rat(100 - min_energy_recorded, 100)
               perclos_score == PerclosScore(Rat(total_closed_frames, valid_frame_count))
               raw_score == RatMax(energy_score, perclos_score)
           IN  /\ RatLE(Rat(5, 100), energy_score)
               /\ RatLE(Rat(5, 100), raw_score)
               /\ Returned.score = RatMin(raw_score, Rat(99, 100))
               /\ Returned.score = Rat(5, 100) <=>
                      \A k \in 1..Len(observed) : ~ClosedAt(k) /\ ~YawnAt(k)
    /\ pc = "done" /\ valid_frame_count > 0 =>
           /\ RatLE(Rat(5, 100), LastPassScore)
           /\ LastPassScore = Rat(5, 100) <=>
                  \A k \in 1..Len(observed) : ~ClosedAt(k) /\ ~YawnAt(k)

\* A pass of several valid frames, none closed-eye or yawning, has returned
\* 0.05: the minimum, 95, was recorded on the first frame.
C31_Witness ==
    /\ pc = "done"
    /\ Len(observed) >= 2
    /\ \A k \in 1..Len(observed) : ~ClosedAt(k) /\ ~YawnAt(k)
    /\ min_energy_recorded = 95 /\ current_energy = 100
    /\ LastPassScore = Rat(5, 100)

\* C32: whenever the hard override fires (max_closed_seq >= 2) the returned
\* score is at least 0.50, because two consecutive closed frames lower the
\* energy by 20 and then 30 from a value of at most 100.
C32_OverrideImpliesHalfScore ==
    /\ [](/\ Max(max_closed_seq, curr_closed_seq) >= 2 => min_energy_recorded <= 50
          /\ PassIsOver /\ Max(max_closed_seq, curr_closed_seq) >= 2 =>
                 Returned.level = 2 /\ RatLE(Rat(50, 100), Returned.score)
          /\ pc = "done" /\ max_closed_seq >= 2 => RatLE(Rat(50, 100), LastPassScore))
    /\ [][ValidFrameStep /\ curr_closed_seq' >= 2 =>
              /\ curr_closed_seq >= 1
              /\ current_energy <= 80
              /\ current_energy' = Max(0, current_energy - 30)]_vars

\* A list whose only closed-eye frames are two in a row, met at energy 100,
\* has returned level 2 with the score exactly 0.50.
C32_Witness ==
    /\ pc = "done"
    /\ max_closed_seq = 2 /\ total_closed_frames = 2
    /\ min_energy_recorded = 50
    /\ result[3] = 2
    /\ result[2] = Rat(50, 100)

\* C33: a pass with at most 10 valid frames never returns warning level 1:
\* its level is 2 if it contains two consecutive closed-eye valid frames and
\* 0 otherwise, because every analyzer update up to and including the 10th
\* returns 0.
C33_ShortPassLevelIs0Or2 ==
    /\ valid_frame_count <= 10 =>
           /\ max_warning_level = 0
           /\ \A k \in 1..Len(observed) : observed[k].level = 0
    /\ PassIsOver /\ valid_frame_count <= 10 =>
           Returned.level = IF HasClosedRun(2) THEN 2 ELSE 0
    /\ pc = "done" /\ Len(frames_data) < 30 /\ valid_frame_count <= 10 =>
           result[3] = IF HasClosedRun(2) THEN 2 ELSE 0

\* A list of exactly 10 valid frames, several of them yawns and no two
\* closed-eye ones in a row, has returned level 0; the 10th update set the
\* baseline.
C33_Witness ==
    /\ pc = "done"
    /\ Len(frames_data) < 30
    /\ valid_frame_count = 10
    /\ trend_analyzer.baseline_ear # None
    /\ SumSeq(trend_analyzer.yawn_history) >= 2
    /\ ~HasClosedRun(2)
    /\ result[3] = 0

\* Lines 210-211 and 235-237 on the locals of the running pass: the level
\* the pass would return if its loop ended here.
PrefixLevel ==
    IF valid_frame_count = 0 THEN 0
    ELSE IF Max(max_closed_seq, curr_closed_seq) >= 2 THEN 2
    ELSE max_warning_level

\* C34: the warning level latches: if a pass were ended after its first k
\* frames, the level it would report is non-decreasing in k, so once some
\* prefix of a frame sequence yields level 1 or 2 every longer prefix yields
\* at least that level; the same holds for energy_score (and not for the
\* PERCLOS component of the score).
C34_LevelLatches ==
    /\ [](InPass =>
             /\ Returned.level = PrefixLevel
             /\ Len(frames_subset) <= CALIBRATION_FRAMES =>
                    Returned.level =
                        calculate_fatigue_metrics(SubSeq(frames_subset, 1, pos),
                                                  MeshAtPassStart).level)
    /\ [][InPass /\ pos' = pos + 1 =>
              /\ PrefixLevel' >= PrefixLevel
              /\ RatLE(EnergyScore(min_energy_recorded), EnergyScore(min_energy_recorded'))]_vars

\* A pass is under way whose prefix reports level 2 from a closed run that
\* is over, the analyzer's last level being 0; PERCLOS has fallen since an
\* earlier prefix.
C34_Witness ==
    /\ InPass
    /\ Returned.level = 2
    /\ curr_closed_seq = 0 /\ current_warning = 0 /\ max_warning_level = 0
    /\ \E k \in 1..(Len(observed) - 1) :
           Cardinality({j \in 1..k : ClosedAt(j)}) * Len(observed) > total_closed_frames * k

-----------------------------------------------------------------------------
(* predict_fatigue: groups                                                 *)

\* C35: for a frame list of exactly 30 frames, group_scores has exactly one
\* element and that element equals overall_score.
C35_ThirtyFramesGroupEqualsOverall ==
    pc = "done" /\ Len(frames_data) = 30 =>
        /\ Len(result[1]) = 1
        /\ result[1][1] = result[2]

\* What does hold for 30 frames: one group score, which is the score of a
\* pass over the same 30 frames that starts with FACE_MESH as the overall
\* pass left it; it is the overall score whenever the overall pass started
\* with FACE_MESH in that state too.
ThirtyFramesOneGroup ==
    pc = "done" /\ Len(frames_data) = 30 =>
        /\ Len(result[1]) = 1
        /\ result[2] = calculate_fatigue_metrics(frames_data, MeshAtCallStart).score
        /\ result[1][1] =
               calculate_fatigue_metrics(frames_data,
                                         MeshAfter(MeshAtCallStart, frames_data)).score
        /\ MeshAfter(MeshAtCallStart, frames_data) = MeshAtCallStart =>
               result[1][1] = result[2]

\* C36: the 30-frame minimum and the chunk boundaries count raw frames,
\* decodable or not: a list of n >= 30 raw frames always yields ceil(n/30)
\* group scores even if fewer than 30 frames decode, and a chunk in which no
\* frame decodes contributes the score 0.0; every group score is therefore
\* either 0.0 or within [0.05, 0.99].
C36_GroupsCountRawFrames ==
    /\ \A g \in 1..Len(group_scores) :
           \/ group_scores[g] = Rat(0, 1)
           \/ RatLE(Rat(5, 100), group_scores[g]) /\ RatLE(group_scores[g], Rat(99, 100))
    /\ pc = "done" /\ Len(frames_data) >= 30 =>
           /\ result[1] = group_scores
           /\ Len(result[1]) = (Len(frames_data) + 29) \div 30
           /\ \A g \in 1..Len(result[1]) :
                  LET chunk == SubSeq(frames_data, 30 * (g - 1) + 1,
                                      Min(30 * g, Len(frames_data)))
                  IN  result[1][g] = Rat(0, 1) <=>
                          \A j \in 1..Len(chunk) : ~Decodable(chunk[j])

\* A list of 31 frames of which 20 decode has returned two group scores:
\* that of the first 30 frames, and 0.0 for the last frame, which does not
\* decode.
C36_Witness ==
    /\ pc = "done"
    /\ Len(frames_data) = 31
    /\ Len(SelectSeq(frames_data, Decodable)) = 20
    /\ Len(result[1]) = 2
    /\ RatLE(Rat(5, 100), result[1][1])
    /\ result[1][2] = Rat(0, 1)

\* C37: if every valid frame of a pass is closed-eye (for example every
\* frame has no detectable face) and there is at least one valid frame, the
\* score is 0.99; the level is 2 if the pass has at least two valid frames
\* and 0 if it has exactly one.
C37_AllClosedPass ==
    /\ InPass /\ (\A j \in 1..pos : frames_subset[j] \in {"noface", "raise", "nodecode"}) =>
           \A k \in 1..Len(observed) : observed[k].ear = 0 /\ ClosedAt(k)
    /\ PassIsOver /\ valid_frame_count > 0 /\ (\A k \in 1..Len(observed) : ClosedAt(k)) =>
           /\ Returned.score = Rat(99, 100)
           /\ Returned.level = IF valid_frame_count >= 2 THEN 2 ELSE 0
    /\ pc = "done" /\ valid_frame_count > 0 /\ (\A k \in 1..Len(observed) : ClosedAt(k)) =>
           /\ LastPassScore = Rat(99, 100)
           /\ Len(frames_data) < 30 => result[3] = IF valid_frame_count >= 2 THEN 2 ELSE 0

\* A list whose only decodable frame shows no face has returned 0.99 with
\* level 0.
C37_Witness ==
    /\ pc = "done"
    /\ Len(frames_data) = 2
    /\ valid_frame_count = 1
    /\ observed[1].ear = 0
    /\ result[2] = Rat(99, 100)
    /\ result[3] = 0

-----------------------------------------------------------------------------
(* CacheAsideRepository: calls interleaved at their await points           *)

\* Every call that has begun has returned or raised, and no redis.delete
\* has failed.
AllCallsOver ==
    \A c \in RepoCalls :
        /\ repo_calls[c].pc \in {"idle", "done"}
        /\ ~repo_calls[c].delete_raised

\* C38: for one user, when get_latest_heart_data and insert_heart_data calls
\* are interleaved at their await points, once all calls have returned (and
\* the Redis delete succeeded) the cache key heart_rate:{user_id}:latest is
\* either absent or holds exactly the list a fresh database query would
\* return; a reader that missed the cache before an insert committed never
\* leaves an older list in the cache after the insert's invalidation.
C38_CacheFreshAfterInterleavedCalls ==
    AllCallsOver /\ redis_kv.exists =>
        \E limit \in Limits : JsonLoads(redis_kv.text) \in QueryLatest(db_rows, limit)

\* What does hold: the key holds the list some reader got from its query
\* and wrote with its ttl, or the list it held before any call.
CacheHoldsAReadersQuery ==
    redis_kv.exists =>
        \/ \E c \in RepoCalls :
               /\ repo_calls[c].set = 1
               /\ redis_kv = [exists |-> TRUE, text |-> JsonDumps(repo_calls[c].data),
                              ex |-> repo_calls[c].ttl]
        \/ /\ \A c \in RepoCalls : repo_calls[c].set = 0
           /\ JsonLoads(redis_kv.text) = <<70>>
           /\ redis_kv.ex = DEFAULT_TTL

====
